---- MODULE Spec2Model ----
(***************************************************************************)
(* The sync pipeline of the desktop agent (apps/desktop/src-tauri/src):    *)
(* the SyncEngine of sync.rs over the sync_state table of db.rs, the       *)
(* parser registry of parsers/mod.rs, and the files the engine reads.      *)
(*                                                                         *)
(* All engine methods take &mut self, so the calls on one engine are       *)
(* serialised.  process_next is async: it is modelled as two steps, the    *)
(* synchronous part up to the await on upload_conversation, and the        *)
(* arrival of the upload's outcome.  Between the two the file system may   *)
(* change and the process may stop.  SQLite statements are taken to        *)
(* succeed; every statement is committed when it returns.                  *)
(***************************************************************************)
EXTENDS Integers, Sequences, FiniteSets, TLC

\* ---------------------------------------------------------------- bounds
MaxTime == 1             \* the clock runs over 0..MaxTime seconds
MaxEnqueued == 2         \* SyncItems enqueued in one behaviour

\* ------------------------------------------------------------ value sets
Paths == {"a.jsonl", "b.jsonl"}
Contents == {"c1", "c2"}
NoFile == "absent"
ParserNames == {"claude-code", "other"}
WorkflowIds == {"wf-1"}
NoWorkflow == "null"
NoTime == -1
UploadOutcomes == {"ok", "unauthorized", "api_error", "http_error"}

\* what request.send() gives upload_conversation: no response, or a response
\* with its status and, when the body is an ExtractionResponse, its workflow id
Statuses == {200, 201, 401, 500}
UploadResponses ==
    {<<>>}
    \cup {<<[status |-> st, body |-> <<>>]>> : st \in Statuses}
    \cup {<<[status |-> st, body |-> <<w>>]>> : st \in {200, 201}, w \in WorkflowIds}

\* one response for each result of upload_conversation
OutcomeResponses ==
    {<<>>, <<[status |-> 401, body |-> <<>>]>>, <<[status |-> 500, body |-> <<>>]>>}
    \cup {<<[status |-> 200, body |-> <<w>>]>> : w \in WorkflowIds}

VARIABLES
    files,      \* file system: path -> content, or NoFile
    now,        \* SystemTime::now() in seconds
    db,         \* sync_state table: file_path -> row
    queue,      \* SyncEngine.queue
    pc,         \* "idle", or "uploading" while process_next awaits the upload
    inflight,   \* <<[item, content]>> while uploading, else <<>>
    caller,     \* who holds the engine: "none", "process_next", "process_all"
    pa,         \* process_all's count, and what it has attempted so far
    handled,    \* path -> content handle_file_change last hashed for it
    tickets,    \* for each queued item, its number in the order of the pushes
    issued,     \* how many items have been pushed
    served,     \* the number of the item popped last
    last        \* the step just taken

\* the sync engine's part of the state
sync_vars == <<files, now, db, queue, pc, inflight, caller, pa, handled, tickets, issued, served, last>>

VARIABLES
    clock,        \* SystemTime::now() in seconds, as the token code reads it
    client_id,    \* whether WORKOS_CLIENT_ID is set (DEFAULT_CLIENT_ID is empty)
    env_token,    \* DUPLEX_ACCESS_TOKEN: <<>> or <<token>>
    keyring,      \* SecureTokenStorage: <<>> or <<TokenData>>
    credentials,  \* credentials.json: <<>> or <<Credentials>>
    engine,       \* <<>> before create_shared_engine, then <<access_token>>
    since_built,  \* the keyring's record was stored after the engine was built
    running,      \* TokenManager.running
    tm,           \* the background refresh task: where it is, what it holds
    stopped,      \* TokenManager::stop has returned
    auth_last     \* the token step just taken

\* the credentials' part of the state
token_vars == <<clock, client_id, env_token, keyring, credentials, engine,
                since_built, running, tm, stopped, auth_last>>

VARIABLES
    poll          \* one call of poll_for_token: its locals and its result

VARIABLES
    pkce          \* the PkceChallenge generate() returned last, with its bytes

VARIABLES
    server        \* one LoopbackServer: its listener, its channel, its connections

VARIABLES
    watcher       \* the FileWatcher: its watched_dirs and its event channel

VARIABLES
    threads       \* the threads that share the engine, and its Mutex

VARIABLES
    table         \* the rows of the sync_state table, as SQLite holds them

vars == <<sync_vars, token_vars, poll, pkce, server, watcher, threads, table>>

\* ------------------------------------------------------------- sync.rs
\* SHA-256 in hex: a digest, distinct for distinct contents
compute_hash(content) == <<"sha256", content>>

SyncItem(path, parser_name, content_hash) ==
    [path |-> path, parser_name |-> parser_name, content_hash |-> content_hash]

\* ParserRegistry::new registers the built-in parser only
registry == {"claude-code"}

registry_get(name) == IF name \in registry THEN {name} ELSE {}

\* ClaudeCodeParser::parse: read_to_string of the file as it is now
parse(path) == IF files[path] = NoFile THEN <<>> ELSE <<files[path]>>

\* --------------------------------------------------------------- db.rs
get_sync_state(d, file_path) ==
    IF file_path \in DOMAIN d THEN <<d[file_path]>> ELSE <<>>

upsert_sync_state(d, state) ==
    [p \in DOMAIN d \cup {state.file_path} |->
        IF p = state.file_path THEN state ELSE d[p]]

update_status(d, file_path, status) ==
    [p \in DOMAIN d |->
        IF p = file_path THEN [d[p] EXCEPT !.status = status] ELSE d[p]]

mark_nothing(d, file_path) == d

\* a process_next that pops an item and leaves its row as it was
mark_syncing_skipped(d, file_path) == d

mark_syncing(d, file_path) ==
    [p \in DOMAIN d |->
        IF p = file_path THEN [d[p] EXCEPT !.status = "syncing"] ELSE d[p]]

\* a mark_complete that does not stamp last_synced_at
mark_complete_unstamped(d, file_path, workflow_id) ==
    [p \in DOMAIN d |->
        IF p = file_path
        THEN [d[p] EXCEPT !.status = "complete", !.workflow_id = workflow_id]
        ELSE d[p]]

mark_complete(d, file_path, workflow_id) ==
    [p \in DOMAIN d |->
        IF p = file_path
        THEN [d[p] EXCEPT !.status = "complete",
                          !.workflow_id = workflow_id,
                          !.last_synced_at = now]
        ELSE d[p]]

\* ------------------------------------------------------------ last step
NoPath == "-"
NoHash == <<>>
PaIdle == [count |-> 0, attempted |-> 0, succeeded |-> 0, entry |-> 0]

\* What the step just taken was: the operation, the path it worked on, how it
\* ended, and what it read, sent and returned.
\*   parser: the parser_name of the event that was queued
\*   was:    the status of the path's row when handle_file_change read it
\*   hash:   the hash of the content upload_conversation sent
\*   wf:     the workflow id upload_conversation returned, or the one
\*           handle_file_change found in the row
\*   pa:     process_all's locals when it returned
Step(op, path, result) ==
    [op |-> op, path |-> path, result |-> result, parser |-> "", was |-> "",
     hash |-> NoHash, wf |-> NoWorkflow, pa |-> PaIdle, status |-> 0]

EnvStep == Step("env", NoPath, "")

\* SyncEngine::new over the database file: an empty queue
SyncIdle ==
    /\ files = [p \in Paths |-> NoFile]
    /\ now = 0
    /\ db = << >>
    /\ queue = <<>>
    /\ pc = "idle"
    /\ inflight = <<>>
    /\ caller = "none"
    /\ pa = PaIdle
    /\ handled = [p \in Paths |-> NoFile]
    /\ tickets = <<>>
    /\ issued = 0
    /\ served = 0
    /\ last = Step("init", NoPath, "")

\* ------------------------------------------------- the parts at rest
\* a token step: what it was, the Authorization header an upload sent, the
\* refresh response it obtained, whether it sent a refresh request, whether
\* it ended in an error; for a login, the token response it obtained and,
\* when it failed, where
AuthStep(op) ==
    [op |-> op, sent |-> <<>>, refresh |-> <<>>, request |-> FALSE, error |-> FALSE,
     token |-> <<>>, cause |-> ""]

\* the background refresh task: not spawned yet, holding no refresh token
TmTask(at) == [at |-> at, refresh_token |-> ""]

\* nobody signed in, no engine built, no refresh task spawned
TokenIdle ==
    /\ clock = 0
    /\ client_id = FALSE
    /\ env_token = <<>>
    /\ keyring = <<>>
    /\ credentials = <<>>
    /\ engine = <<>>
    /\ since_built = FALSE
    /\ running = FALSE
    /\ tm = TmTask("new")
    /\ stopped = FALSE
    /\ auth_last = AuthStep("init")

\* the locals of poll_for_token and, in the end, what it returned
PollLocals(at, interval, timeout) ==
    [at |-> at, interval |-> interval, timeout |-> timeout,
     elapsed |-> 0,        \* start.elapsed(), in seconds
     requests |-> 0,       \* token requests sent
     sent_at |-> 0,        \* start.elapsed() when the last one was sent
     pendings |-> 0,       \* authorization_pending answers received
     slow_downs |-> 0,     \* slow_down answers received
     answered_at |-> 0,    \* start.elapsed() when the last answer arrived
     answer |-> [kind |-> "", code |-> "", description |-> <<>>, token |-> ""],
                           \* the provider's last answer
     result |-> <<>>]

\* poll_for_token is not being called
PollIdle == poll = PollLocals("idle", 0, 0)

\* generate() has not been called
PkceIdle == pkce = <<>>

\* what the callback server did last: the request it answered, the status
\* of the response, the result handle_callback made of the request, and
\* whether that result went into the channel
ServerStep(op) ==
    [op |-> op, conn |-> 0, path |-> <<>>, params |-> << >>, status |-> 0,
     result |-> <<>>, delivered |-> FALSE]

\* a connection slot nobody has connected on
NoConn == [at |-> "free", result |-> <<>>]

\* LoopbackServer::start has not been called
ServerIdle ==
    server = [at |-> "none", owner |-> "none", result_tx |-> FALSE,
              sent |-> <<>>, returned |-> <<>>, conns |-> << >>,
              sends |-> 0, first |-> <<>>, last |-> ServerStep("init")]

\* FileWatcher::new has not been called
WatcherIdle == watcher = << >>

\* no thread has been spawned over the engine
ThreadsIdle == threads = << >>

\* the database has not been opened
TableIdle == table = << >>

Init ==
    /\ SyncIdle /\ TokenIdle /\ PollIdle /\ PkceIdle
    /\ ServerIdle /\ WatcherIdle /\ ThreadsIdle /\ TableIdle

\* ---------------------------------------------------------- environment
FileWrite(p, c) ==
    /\ files[p] # c
    /\ files' = [files EXCEPT ![p] = c]
    /\ last' = EnvStep
    /\ UNCHANGED <<now, db, queue, pc, inflight, caller, pa, handled, tickets, issued, served>>
    /\ UNCHANGED <<token_vars, poll, pkce, server, watcher, threads, table>>

FileRemove(p) ==
    /\ files[p] # NoFile
    /\ files' = [files EXCEPT ![p] = NoFile]
    /\ last' = EnvStep
    /\ UNCHANGED <<now, db, queue, pc, inflight, caller, pa, handled, tickets, issued, served>>
    /\ UNCHANGED <<token_vars, poll, pkce, server, watcher, threads, table>>

Tick ==
    /\ now < MaxTime
    /\ now' = now + 1
    /\ last' = EnvStep
    /\ UNCHANGED <<files, db, queue, pc, inflight, caller, pa, handled, tickets, issued, served>>
    /\ UNCHANGED <<token_vars, poll, pkce, server, watcher, threads, table>>

\* -------------------------------------------- SyncEngine::handle_file_change
unchanged_when_complete(existing, content_hash) ==
    /\ existing # <<>>
    /\ existing[1].content_hash = content_hash
    /\ existing[1].status = "complete"

unchanged_or_error(existing, content_hash) ==
    /\ existing # <<>>
    /\ (existing[1].content_hash = content_hash \/ existing[1].status = "error")

\* "content changed since last sync": the early return of lines 102-107
unchanged(existing, content_hash) ==
    existing # <<>> /\ existing[1].content_hash = content_hash

pending_keep_workflow(d, path, content_hash) ==
    [file_path |-> path,
     content_hash |-> content_hash,
     last_synced_at |-> NoTime,
     last_modified_at |-> now,
     workflow_id |-> IF path \in DOMAIN d THEN d[path].workflow_id ELSE NoWorkflow,
     status |-> "pending"]

\* the row handle_file_change upserts
pending_state(d, path, content_hash) ==
    [file_path |-> path,
     content_hash |-> content_hash,
     last_synced_at |-> NoTime,
     last_modified_at |-> now,
     workflow_id |-> NoWorkflow,
     status |-> "pending"]

push_front(q, item) == <<item>> \o q

push_back(q, item) == Append(q, item)

status_of(d, path) == IF path \in DOMAIN d THEN d[path].status ELSE "absent"
workflow_of(d, path) == IF path \in DOMAIN d THEN d[path].workflow_id ELSE NoWorkflow

\* a handle_file_change that pushed the item before writing the row
queue_after_failed_upsert_pushed(q, item) == push_back(q, item)

\* upsert_sync_state(..)? returns before push_back (sync.rs 122-131)
queue_after_failed_upsert(q, item) == q

\* db_fails names the call on the state store that fails, if one does:
\* get_sync_state (sync.rs 102) or upsert_sync_state (sync.rs 122-129)
handle_file_change(path, parser_name, db_fails) ==
    /\ caller = "none"
    /\ IF files[path] = NoFile
       THEN \* read_to_string fails: Err(Io)
            /\ last' = Step("handle_file_change", path, "io_error")
            /\ UNCHANGED <<db, queue, handled, tickets, issued>>
       ELSE LET content_hash == compute_hash(files[path])
                existing == get_sync_state(db, path)
                item == SyncItem(path, parser_name, content_hash)
            IN  IF db_fails = "get_sync_state"
                THEN \* Err(Database) through `?`
                     /\ last' = Step("handle_file_change", path, "db_error")
                     /\ UNCHANGED <<db, queue, handled, tickets, issued>>
                ELSE IF unchanged(existing, content_hash)
                THEN /\ last' = Step("handle_file_change", path, "skipped")
                     /\ handled' = [handled EXCEPT ![path] = files[path]]
                     /\ UNCHANGED <<db, queue, tickets, issued>>
                ELSE IF db_fails = "upsert_sync_state"
                THEN \* Err(Database) through `?`: the statement wrote nothing
                     /\ queue' = queue_after_failed_upsert(queue, item)
                     /\ last' = Step("handle_file_change", path, "db_error")
                     /\ UNCHANGED <<db, handled, tickets, issued>>
                ELSE /\ issued < MaxEnqueued
                     /\ issued' = issued + 1
                     /\ db' = upsert_sync_state(db, pending_state(db, path, content_hash))
                     /\ queue' = push_back(queue, item)
                     /\ tickets' = push_back(tickets, issued + 1)
                     /\ handled' = [handled EXCEPT ![path] = files[path]]
                     /\ last' = [Step("handle_file_change", path, "queued")
                                    EXCEPT !.parser = parser_name,
                                           !.was = status_of(db, path),
                                           !.wf = workflow_of(db, path)]
    /\ UNCHANGED <<files, now, pc, inflight, caller, pa, served>>
    /\ UNCHANGED <<token_vars, poll, pkce, server, watcher, threads, table>>

\* ------------------------------------------------- SyncEngine::process_next
pop_back(q) == <<q[Len(q)], SubSeq(q, 1, Len(q) - 1)>>

pop_front(q) == <<Head(q), Tail(q)>>

count_every(count, result) == count + 1

\* the arms of process_all's match on process_next's result (lines 243-250)
count_after(count, result) == IF result = "some" THEN count + 1 ELSE count

\* a process_all that hands an item's error to its caller, as `?` would
process_all_arm_propagating(result) ==
    CASE result = "some" -> "continue"
      [] result = "none" -> "break"
      [] result = "err" -> "return_err"

\* what process_all does with process_next's result (lines 243-250):
\* Ok(Some) and Err go round the loop, Ok(None) leaves it
process_all_arm(result) ==
    CASE result = "some" -> "continue"
      [] result = "none" -> "break"
      [] result = "err" -> "continue"

\* process_next has returned `result` to `who`
Returned(who, result, uploaded) ==
    LET looping == who = "process_all" /\ process_all_arm(result) = "continue"
    IN  /\ caller' = IF looping THEN "process_all" ELSE "none"
        /\ pa' = IF looping
                 THEN [pa EXCEPT !.count = count_after(@, result),
                                 !.attempted = @ + 1,
                                 !.succeeded = IF uploaded THEN @ + 1 ELSE @]
                 ELSE IF who = "process_all" THEN PaIdle
                 ELSE pa

\* process_next from the pop to the await on upload_conversation
StartNext(who) ==
    LET popped == pop_front(queue)
        item == popped[1]
        parser == registry_get(item.parser_name)
        conversation == parse(item.path)
    IN  /\ queue' = popped[2]
        /\ tickets' = pop_front(tickets)[2]
        /\ served' = pop_front(tickets)[1]
        /\ db' = mark_syncing(db, item.path)
        /\ IF parser = {}
           THEN \* Err(NoParser) through `?`
                /\ Returned(who, "err", FALSE)
                /\ last' = Step("process_next", item.path, "no_parser")
                /\ UNCHANGED <<pc, inflight>>
           ELSE IF conversation = <<>>
           THEN \* Err(Parser(Io)) through `?`
                /\ Returned(who, "err", FALSE)
                /\ last' = Step("process_next", item.path, "parse_error")
                /\ UNCHANGED <<pc, inflight>>
           ELSE /\ pc' = "uploading"
                /\ inflight' = <<[item |-> item, content |-> conversation[1]]>>
                /\ caller' = who
                /\ last' = Step("process_next", item.path, "uploading")
                /\ UNCHANGED pa
        /\ UNCHANGED <<files, now, handled, issued>>

process_next ==
    /\ caller = "none"
    /\ IF queue = <<>>
       THEN /\ last' = Step("process_next", NoPath, "none")
            /\ UNCHANGED <<files, now, db, queue, pc, inflight, caller, pa,
                           handled, tickets, issued, served>>
       ELSE StartNext("process_next")
    /\ UNCHANGED <<token_vars, poll, pkce, server, watcher, threads, table>>

\* StatusCode::is_success
is_success(status) == status \div 100 = 2

\* a mapping without the 401 case
upload_result_generic(response) ==
    IF response = <<>> THEN "http_error"
    ELSE IF ~is_success(response[1].status) THEN "api_error"
    ELSE IF response[1].body = <<>> THEN "http_error"
    ELSE "ok"

\* what upload_conversation returns for a response (sync.rs 221-236): the
\* send or the body's decoding failing is Err(Http), 401 is
\* Err(NotAuthenticated), another status outside 2xx is Err(Api)
upload_result(response) ==
    IF response = <<>> THEN "http_error"
    ELSE IF ~is_success(response[1].status)
    THEN IF response[1].status = 401 THEN "unauthorized" ELSE "api_error"
    ELSE IF response[1].body = <<>> THEN "http_error"
    ELSE "ok"

\* the upload's response arrives: the rest of upload_conversation and the
\* match of lines 158-175
upload_conversation(response) ==
    /\ pc = "uploading"
    /\ LET item == inflight[1].item
           uploaded == compute_hash(inflight[1].content)
           outcome == upload_result(response)
           status == IF response = <<>> THEN 0 ELSE response[1].status
           workflow_id == IF response = <<>> \/ response[1].body = <<>>
                          THEN NoWorkflow ELSE response[1].body[1]
       IN  IF outcome = "ok"
           THEN /\ db' = mark_complete(db, item.path, workflow_id)
                /\ Returned(caller, "some", TRUE)
                /\ last' = [Step("upload_conversation", item.path, outcome)
                               EXCEPT !.hash = uploaded, !.wf = workflow_id,
                                      !.status = status]
           ELSE /\ db' = update_status(db, item.path, "error")
                /\ Returned(caller, "err", FALSE)
                /\ last' = [Step("upload_conversation", item.path, outcome)
                               EXCEPT !.hash = uploaded, !.wf = workflow_id,
                                      !.status = status]
    /\ pc' = "idle"
    /\ inflight' = <<>>
    /\ UNCHANGED <<files, now, queue, handled, tickets, issued, served>>
    /\ UNCHANGED <<token_vars, poll, pkce, server, watcher, threads, table>>

\* -------------------------------------------------- SyncEngine::process_all
process_all ==
    /\ caller = "none"
    /\ caller' = "process_all"
    /\ pa' = [count |-> 0, attempted |-> 0, succeeded |-> 0, entry |-> Len(queue)]
    /\ last' = Step("process_all", NoPath, "entered")
    /\ UNCHANGED <<files, now, db, queue, pc, inflight, handled, tickets, issued, served>>
    /\ UNCHANGED <<token_vars, poll, pkce, server, watcher, threads, table>>

\* one evaluation of the while condition of line 242
process_all_loop ==
    /\ caller = "process_all"
    /\ pc = "idle"
    /\ IF queue = <<>>
       THEN /\ caller' = "none"
            /\ pa' = PaIdle
            /\ last' = [Step("process_all", NoPath, "returned") EXCEPT !.pa = pa]
            /\ UNCHANGED <<files, now, db, queue, pc, inflight, handled,
                           tickets, issued, served>>
       ELSE StartNext("process_all")
    /\ UNCHANGED <<token_vars, poll, pkce, server, watcher, threads, table>>

\* --------------------------------------- process exit and SyncEngine::new
Restart ==
    /\ queue' = <<>>
    /\ pc' = "idle"
    /\ inflight' = <<>>
    /\ caller' = "none"
    /\ pa' = PaIdle
    /\ tickets' = <<>>
    /\ served' = issued
    /\ last' = Step("restart", NoPath, "")
    /\ UNCHANGED <<files, now, db, handled, issued>>
    /\ UNCHANGED <<token_vars, poll, pkce, server, watcher, threads, table>>

Next ==
    \/ \E p \in Paths, c \in Contents : FileWrite(p, c)
    \/ \E p \in Paths : FileRemove(p)
    \/ Tick
    \/ \E p \in Paths, n \in ParserNames : handle_file_change(p, n, "none")
    \/ process_next
    \/ \E response \in OutcomeResponses : upload_conversation(response)
    \/ process_all
    \/ process_all_loop
    \/ Restart

Spec == Init /\ [][Next]_vars

\* The engine at one instant, with every upload response and with a state
\* store whose calls can fail.
FaultNext ==
    \/ \E p \in Paths, c \in Contents : FileWrite(p, c)
    \/ \E p \in Paths : FileRemove(p)
    \/ \E p \in Paths, n \in ParserNames,
          db_fails \in {"none", "get_sync_state", "upsert_sync_state"} :
             handle_file_change(p, n, db_fails)
    \/ process_next
    \/ \E response \in UploadResponses : upload_conversation(response)
    \/ process_all
    \/ process_all_loop
    \/ Restart

FaultSpec == Init /\ [][FaultNext]_vars

\* One lifetime of the process: the engine of FaultSpec with no exit.
LifetimeNext ==
    \/ \E p \in Paths, c \in Contents : FileWrite(p, c)
    \/ \E p \in Paths : FileRemove(p)
    \/ \E p \in Paths, n \in ParserNames,
          db_fails \in {"none", "get_sync_state", "upsert_sync_state"} :
             handle_file_change(p, n, db_fails)
    \/ process_next
    \/ \E response \in UploadResponses : upload_conversation(response)
    \/ process_all
    \/ process_all_loop

LifetimeSpec == Init /\ [][LifetimeNext]_vars

\* the upload's future completes: the client was built with a timeout of 30
\* seconds (sync.rs 75-77), so send() returns a response or an error
upload_returns == \E response \in UploadResponses : upload_conversation(response)

\* the thread that called process_all keeps running it: block_on drives the
\* future until it returns (main.rs 212-217, 326-337)
LifetimeFairSpec ==
    LifetimeSpec /\ WF_vars(process_all_loop) /\ WF_vars(upload_returns)

\* the watcher reports the path again and the event thread hands the event
\* to the engine (main.rs 191-209)
reported(p) == \E n \in ParserNames : handle_file_change(p, n, "none")

\* The engine with exits and restarts, in which the process is in the end
\* left running, every path is reported to it again and again, the queue
\* keeps being drained and every upload returns.
RestartFairSpec ==
    /\ FaultSpec
    /\ <>[][~Restart]_vars
    /\ \A p \in Paths : SF_vars(reported(p))
    /\ WF_vars(process_next)
    /\ WF_vars(process_all_loop)
    /\ WF_vars(upload_returns)

TypeOK ==
    /\ files \in [Paths -> Contents \cup {NoFile}]
    /\ now \in 0..MaxTime
    /\ DOMAIN db \subseteq Paths
    /\ pc \in {"idle", "uploading"}
    /\ caller \in {"none", "process_next", "process_all"}
    /\ Len(queue) <= MaxEnqueued

\* ====================================================================
\* Properties of the sync engine
\* ====================================================================
HashMatches(d, fs, p) ==
    /\ p \in DOMAIN d
    /\ fs[p] # NoFile
    /\ d[p].content_hash = compute_hash(fs[p])

QueuedFor(q, p) == Cardinality({i \in 1..Len(q) : q[i].path = p})

\* C1: a handle_file_change call for a path whose content is what the previous
\* call for that path hashed enqueues nothing and leaves the whole sync_state
\* table as it is, whatever the status of the row; no call enqueues more than
\* one item.
C1_Idempotent ==
    [][last'.op = "handle_file_change" =>
         /\ Len(queue') <= Len(queue) + 1
         /\ (files[last'.path] # NoFile /\ handled[last'.path] = files[last'.path]
                => queue' = queue /\ db' = db)]_vars

\* a second call on unchanged content met a row that is no longer Pending
C1_Witness ==
    /\ last.op = "handle_file_change"
    /\ last.result = "skipped"
    /\ handled[last.path] = files[last.path]
    /\ db[last.path].status \in {"syncing", "complete", "error"}

\* C2: a handle_file_change call that finds no row for the path, or a row with
\* another hash than the file's, leaves a Pending row with the file's hash and
\* appends exactly one SyncItem (the path, the event's parser name, that hash)
\* at the tail of the queue.
C2_QueuesChange ==
    [][(/\ last'.op = "handle_file_change"
        /\ files[last'.path] # NoFile
        /\ ~HashMatches(db, files, last'.path))
       => LET p == last'.path
              h == compute_hash(files[p])
          IN  /\ p \in DOMAIN db'
              /\ db'[p].status = "pending"
              /\ db'[p].content_hash = h
              /\ queue' = Append(queue, SyncItem(p, last'.parser, h))]_vars

\* a changed file was queued behind an item that was already waiting
C2_Witness ==
    /\ last.op = "handle_file_change"
    /\ last.result = "queued"
    /\ Len(queue) = 2
    /\ queue[2].path = last.path
    /\ db[last.path].status = "pending"

\* C3: the queue holds exactly the items pushed and not yet popped, in the order
\* of the pushes, and every pop took the item pushed right after the one popped
\* before it: tickets[i], the push number of queue[i], is served + i.
C3_Fifo ==
    /\ Len(tickets) = Len(queue)
    /\ \A i \in 1..Len(tickets) : tickets[i] = served + i
    /\ served + Len(queue) = issued

\* the first of two queued items for different paths was popped
C3_Witness ==
    /\ last.op = "process_next"
    /\ last.result # "none"
    /\ served = 1
    /\ Len(queue) = 1
    /\ queue[1].path # last.path

C5_FailedIsError ==
    (\/ last.op = "process_next" /\ last.result \in {"no_parser", "parse_error"}
     \/ last.op = "upload_conversation" /\ last.result # "ok")
        => db[last.path].status = "error"

\* C6: a row becomes Syncing only in the step in which process_next pops an item
\* for its path; it becomes Complete only from Syncing, in the step in which the
\* upload for its path succeeds; it becomes Error only from Syncing.
C6_LegalTransitions ==
    [][\A p \in Paths :
         LET before == status_of(db, p)
             after == status_of(db', p)
         IN  /\ (after = "syncing" /\ before # "syncing")
                    => last'.op = "process_next" /\ last'.path = p
             /\ (after = "complete" /\ before # "complete")
                    => /\ before = "syncing"
                       /\ last'.op = "upload_conversation"
                       /\ last'.result = "ok"
                       /\ last'.path = p
             /\ (after = "error" /\ before # "error")
                    => /\ before = "syncing"
                       /\ last'.op = "upload_conversation"
                       /\ last'.result # "ok"
                       /\ last'.path = p]_vars

\* an upload succeeded and its row went from Syncing to Complete
C6_Witness ==
    /\ last.op = "upload_conversation"
    /\ last.result = "ok"
    /\ db[last.path].status = "complete"

\* C7 (as claimed): when an upload succeeds and the row is marked Complete, the
\* row's content_hash is the hash of the content that was sent.
C7_CompleteHashUploaded ==
    (last.op = "upload_conversation" /\ last.result = "ok")
        => db[last.path].content_hash = last.hash

\* C8 (as claimed): the Pending row written for a path whose row held the
\* workflow_id of an earlier upload still holds that workflow_id.
C8_WorkflowKept ==
    (last.op = "handle_file_change" /\ last.result = "queued"
        /\ last.wf # NoWorkflow)
        => db[last.path].workflow_id = last.wf

\* C8 (amended): the Pending row replaces the whole row of the path: the new
\* hash, last_modified_at = now, status Pending, and neither workflow_id nor
\* last_synced_at; the other rows are untouched.
C8_PendingReplacesRow ==
    [][(last'.op = "handle_file_change" /\ last'.result = "queued")
       => LET p == last'.path
          IN  /\ db'[p] = [file_path |-> p,
                           content_hash |-> compute_hash(files[p]),
                           last_synced_at |-> NoTime,
                           last_modified_at |-> now,
                           workflow_id |-> NoWorkflow,
                           status |-> "pending"]
              /\ \A q \in DOMAIN db \ {p} : db'[q] = db[q]]_vars

\* a changed file was queued for a path whose row held a workflow id
C8_Witness ==
    /\ last.op = "handle_file_change"
    /\ last.result = "queued"
    /\ last.was = "complete"
    /\ last.wf \in WorkflowIds
    /\ db[last.path].workflow_id = NoWorkflow

\* C9: for a path whose row is in Error, handle_file_change enqueues nothing and
\* leaves the row when the file's hash is the row's, and makes the row Pending
\* with the new hash and enqueues one item when it differs; no other step adds
\* an item for that path.
C9_ErrorRequeuedOnChange ==
    [][\A p \in Paths :
         status_of(db, p) = "error" =>
           /\ (last'.op = "handle_file_change" /\ last'.path = p
                 /\ HashMatches(db, files, p))
                 => queue' = queue /\ db' = db
           /\ (last'.op = "handle_file_change" /\ last'.path = p
                 /\ files[p] # NoFile /\ ~HashMatches(db, files, p))
                 => /\ db'[p].status = "pending"
                    /\ db'[p].content_hash = compute_hash(files[p])
                    /\ QueuedFor(queue', p) = QueuedFor(queue, p) + 1
                    /\ Len(queue') = Len(queue) + 1
           /\ QueuedFor(queue', p) > QueuedFor(queue, p)
                 => /\ last'.op = "handle_file_change"
                    /\ last'.path = p
                    /\ ~HashMatches(db, files, p)]_vars

\* a row in Error was made Pending again because the file had changed
C9_Witness ==
    /\ last.op = "handle_file_change"
    /\ last.result = "queued"
    /\ last.was = "error"
    /\ db[last.path].status = "pending"

\* C10 (as claimed): after a restart no row is left in Syncing whose hash is the
\* hash of the file's current content: such a row has been made Pending and
\* queued again.
C10_SyncingRequeued ==
    last.op = "restart"
        => \A p \in DOMAIN db :
             db[p].status = "syncing" => ~HashMatches(db, files, p)

\* ====================================================================
\* Credentials: config.rs, auth.rs, token_manager.rs, and their use in
\* main.rs and sync.rs.  Two stores hold tokens: credentials.json, which
\* the device-code login writes, and SecureTokenStorage (the keyring),
\* which the PKCE login and the background refresh write.  The source of
\* SecureTokenStorage is not part of the tree: it is modelled as the
\* specification describes it, one record behind store/get/clear, each of
\* them atomic.  Writes to either store are taken to succeed.
\* ====================================================================
MaxClock == 2            \* the token clock runs over 0..MaxClock seconds

REFRESH_BUFFER_SECS == 60

\* what the token endpoint can grant
TokenResponses ==
    {[access_token |-> "A1", refresh_token |-> "R1", expires_in |-> 60],
     [access_token |-> "A2", refresh_token |-> "R2", expires_in |-> 62]}

\* the outcome of one grant request: an error, or a TokenResponse
GrantOutcomes == {<<>>} \cup {<<r>> : r \in TokenResponses}

EnvTokens == {<<>>, <<"E">>}

TokenData(access_token, refresh_token, expires_at) ==
    [access_token |-> access_token, refresh_token |-> refresh_token,
     expires_at |-> expires_at]

\* ------------------------------------------------- SecureTokenStorage
get_tokens(store) == store

store_tokens(store, access_token, refresh_token, expires_at) ==
    <<TokenData(access_token, refresh_token, expires_at)>>

clear_tokens(store) == <<>>

has_tokens(store) == store # <<>>

\* ------------------------------------------------------------ config.rs
is_expired(c, t) == c.expires_at <= t + 60

\* config::get_access_token: Err(NotAuthenticated), Err(TokenExpired), or Ok
config_get_access_token(file, t) ==
    IF file = <<>> \/ is_expired(file[1], t) THEN <<>> ELSE <<file[1].access_token>>

\* -------------------------------------------------------------- auth.rs
save_token_as_credentials(token, t) ==
    <<TokenData(token.access_token, token.refresh_token, t + token.expires_in)>>

\* get_valid_token: the token it returns (<<>> for every Err), the file it
\* leaves, whether it sent a refresh request, and the response it got.
\* Without credentials.json it falls through to config::get_access_token,
\* which loads the same file again and fails the same way.
get_valid_token(file, t, cid, grant) ==
    IF file = <<>>
    THEN [token |-> <<>>, file |-> file, request |-> FALSE, refresh |-> <<>>]
    ELSE IF ~is_expired(file[1], t)
    THEN [token |-> <<file[1].access_token>>, file |-> file,
          request |-> FALSE, refresh |-> <<>>]
    ELSE IF ~cid
    THEN \* get_client_id()? : Err(ClientIdNotConfigured)
         [token |-> <<>>, file |-> file, request |-> FALSE, refresh |-> <<>>]
    ELSE IF grant = <<>>
    THEN \* refresh_token(..).await? : Err(Http) or Err(Api)
         [token |-> <<>>, file |-> file, request |-> TRUE, refresh |-> <<>>]
    ELSE [token |-> <<grant[1].access_token>>,
          file |-> save_token_as_credentials(grant[1], t),
          request |-> TRUE, refresh |-> grant]

\* -------------------------------------------------------------- sync.rs
\* SyncEngine::get_token: Ok(token) of get_valid_token, else self.access_token
get_token(access_token, valid) ==
    IF valid # <<>> THEN valid ELSE access_token

\* -------------------------------------------------------------- main.rs
\* the access_token handed to create_shared_engine (lines 154-156)
initial_access_token(kr, file, env, t) ==
    IF get_tokens(kr) # <<>> THEN <<kr[1].access_token>>
    ELSE IF config_get_access_token(file, t) # <<>>
    THEN config_get_access_token(file, t)
    ELSE env

\* --------------------------------------------------- the token actions
TokenClock ==
    /\ clock < MaxClock
    /\ clock' = clock + 1
    /\ auth_last' = AuthStep("clock")
    /\ UNCHANGED <<client_id, env_token, keyring, credentials, engine,
                   since_built, running, tm, stopped>>
    /\ UNCHANGED <<sync_vars, poll, pkce, server, watcher, threads, table>>

\* what wait_for_callback returns to DesktopOAuthFlow::complete
CallbackOutcomes == {"code", "AuthorizationFailed", "CodeReceiveError"}

\* what poll_for_token returns to login
PollOutcomes ==
    {<<"Ok", r>> : r \in TokenResponses}
    \cup {<<"Err", e>> : e \in {"DeviceCodeExpired", "AuthorizationDenied", "Api", "Http"}}

\* where desktop_login fails, "" when it does not: flow.start() needs the
\* client id (auth.rs 385), complete() the callback (421) and the exchange
\* (426-430)
desktop_login_failure(cid, callback, exchanged) ==
    IF ~cid THEN "ClientIdNotConfigured"
    ELSE IF callback # "code" THEN callback
    ELSE IF exchanged = <<>> THEN "exchange_code_for_token"
    ELSE ""

\* where login fails, "" when it does not: get_client_id (auth.rs 237),
\* start_device_flow (241), poll_for_token (252-258)
login_failure(cid, device, polled) ==
    IF ~cid THEN "ClientIdNotConfigured"
    ELSE IF ~device THEN "start_device_flow"
    ELSE IF polled[1] = "Err" THEN polled[2]
    ELSE ""

\* a flow that clears the store when it starts
stored_after_clearing(store, failure, token_record) ==
    IF failure # "" THEN <<>> ELSE token_record

\* every `?` of the two flows returns before the write: the store after the
\* flow is the old one, or the record of the token response
stored_after(store, failure, token_record) ==
    IF failure # "" THEN store ELSE token_record

\* auth::desktop_login: DesktopOAuthFlow::start and complete (auth.rs 379-447,
\* 493-508)
desktop_login(callback, exchanged) ==
    LET failure == desktop_login_failure(client_id, callback, exchanged)
        token_record ==
            IF exchanged = <<>> THEN <<>>
            ELSE store_tokens(keyring, exchanged[1].access_token,
                              exchanged[1].refresh_token,
                              clock + exchanged[1].expires_in)
    IN  /\ keyring' = stored_after(keyring, failure, token_record)
        /\ since_built' = IF failure = "" THEN engine # <<>> ELSE since_built
        /\ auth_last' = [AuthStep("desktop_login") EXCEPT
                            !.error = (failure # ""),
                            !.cause = failure,
                            !.token = IF failure = "" THEN exchanged ELSE <<>>]
        /\ UNCHANGED <<clock, client_id, env_token, credentials, engine, running,
                       tm, stopped>>
        /\ UNCHANGED <<sync_vars, poll, pkce, server, watcher, threads, table>>

\* auth::login (auth.rs 236-269)
login(device, polled) ==
    LET failure == login_failure(client_id, device, polled)
        token_record ==
            IF polled[1] = "Ok" THEN save_token_as_credentials(polled[2], clock)
            ELSE <<>>
    IN  /\ credentials' = stored_after(credentials, failure, token_record)
        /\ auth_last' = [AuthStep("login") EXCEPT
                            !.error = (failure # ""),
                            !.cause = failure,
                            !.token = IF failure = "" THEN <<polled[2]>> ELSE <<>>]
        /\ UNCHANGED <<clock, client_id, env_token, keyring, engine, since_built,
                       running, tm, stopped>>
        /\ UNCHANGED <<sync_vars, poll, pkce, server, watcher, threads, table>>

\* auth::logout: delete_credentials
logout ==
    /\ credentials # <<>>
    /\ credentials' = <<>>
    /\ auth_last' = AuthStep("logout")
    /\ UNCHANGED <<clock, client_id, env_token, keyring, engine, since_built,
                   running, tm, stopped>>
    /\ UNCHANGED <<sync_vars, poll, pkce, server, watcher, threads, table>>

\* the "auth_action" menu event while signed in (main.rs 284-296)
sign_out ==
    /\ has_tokens(keyring)
    /\ keyring' = clear_tokens(keyring)
    /\ since_built' = FALSE
    /\ auth_last' = AuthStep("sign_out")
    /\ UNCHANGED <<clock, client_id, env_token, credentials, engine, running,
                   tm, stopped>>
    /\ UNCHANGED <<sync_vars, poll, pkce, server, watcher, threads, table>>

\* main.rs 153-177: the engine keeps the token found at construction
create_shared_engine ==
    /\ engine = <<>>
    /\ engine' = <<initial_access_token(keyring, credentials, env_token, clock)>>
    /\ auth_last' = AuthStep("create_shared_engine")
    /\ UNCHANGED <<clock, client_id, env_token, keyring, credentials,
                   since_built, running, tm, stopped>>
    /\ UNCHANGED <<sync_vars, poll, pkce, server, watcher, threads, table>>

\* SyncEngine::upload_conversation up to request.send() (sync.rs 201-219)
upload_request(grant) ==
    /\ engine # <<>>
    /\ LET valid == get_valid_token(credentials, clock, client_id, grant)
       IN  /\ credentials' = valid.file
           /\ auth_last' = [AuthStep("upload") EXCEPT
                               !.sent = get_token(engine[1], valid.token),
                               !.refresh = valid.refresh,
                               !.request = valid.request]
    /\ UNCHANGED <<clock, client_id, env_token, keyring, engine, since_built,
                   running, tm, stopped>>
    /\ UNCHANGED <<sync_vars, poll, pkce, server, watcher, threads, table>>

\* ------------------------------------------------------ token_manager.rs
needs_refresh_strictly(token_data, t) ==
    token_data.expires_at < t + REFRESH_BUFFER_SECS

\* line 93: the token will expire within the buffer period
needs_refresh(token_data, t) ==
    token_data.expires_at <= t + REFRESH_BUFFER_SECS

refreshed_access_only(store, token_response, t) ==
    IF store = <<>>
    THEN store
    ELSE store_tokens(store, token_response.access_token,
                      store[1].refresh_token, store[1].expires_at)

\* do_refresh after the response: lines 134-145
refreshed(store, token_response, t) ==
    store_tokens(store, token_response.access_token,
                 token_response.refresh_token, t + token_response.expires_in)

\* start_background_refresh returns once the task is spawned
start_background_refresh ==
    /\ tm.at = "new"
    /\ tm' = TmTask("spawned")
    /\ auth_last' = AuthStep("start_background_refresh")
    /\ UNCHANGED <<clock, client_id, env_token, keyring, credentials, engine,
                   since_built, running, stopped>>
    /\ UNCHANGED <<sync_vars, poll, pkce, server, watcher, threads, table>>

\* the task starts to run: lines 65-70
mark_running ==
    /\ tm.at = "spawned"
    /\ running' = TRUE
    /\ tm' = TmTask("tick")
    /\ auth_last' = AuthStep("mark_running")
    /\ UNCHANGED <<clock, client_id, env_token, keyring, credentials, engine,
                   since_built, stopped>>
    /\ UNCHANGED <<sync_vars, poll, pkce, server, watcher, threads, table>>

\* one pass of the loop from check_interval.tick() to its next await:
\* lines 73-117, with do_refresh up to the await on refresh_token.  The
\* ticks are CHECK_INTERVAL_SECS apart; the clock here does not hold them
\* to that, so it allows every schedule the interval allows.
check_interval_tick ==
    /\ tm.at = "tick"
    /\ LET token_data == get_tokens(keyring)
       IN  IF ~running
           THEN /\ tm' = TmTask("exited")
                /\ auth_last' = AuthStep("tick")
           ELSE IF token_data # <<>> /\ needs_refresh(token_data[1], clock)
           THEN IF client_id
                THEN /\ tm' = [at |-> "refresh",
                               refresh_token |-> token_data[1].refresh_token]
                     /\ auth_last' = [AuthStep("tick") EXCEPT !.request = TRUE]
                ELSE \* get_client_id()? : do_refresh fails, the error is logged
                     /\ tm' = tm
                     /\ auth_last' = [AuthStep("tick") EXCEPT !.error = TRUE]
           ELSE /\ tm' = tm
                /\ auth_last' = AuthStep("tick")
    /\ UNCHANGED <<clock, client_id, env_token, keyring, credentials, engine,
                   since_built, running, stopped>>
    /\ UNCHANGED <<sync_vars, poll, pkce, server, watcher, threads, table>>

\* the refresh request's outcome arrives: the rest of do_refresh
do_refresh(grant) ==
    /\ tm.at = "refresh"
    /\ IF grant = <<>>
       THEN UNCHANGED <<keyring, since_built>>
       ELSE /\ keyring' = refreshed(keyring, grant[1], clock)
            /\ since_built' = (engine # <<>>)
    /\ tm' = TmTask("tick")
    /\ auth_last' = [AuthStep("do_refresh") EXCEPT !.refresh = grant,
                                                   !.error = (grant = <<>>)]
    /\ UNCHANGED <<clock, client_id, env_token, credentials, engine, running,
                   stopped>>
    /\ UNCHANGED <<sync_vars, poll, pkce, server, watcher, threads, table>>

\* TokenManager::stop, called once the refresh task has been started
stop ==
    /\ tm.at # "new"
    /\ ~stopped
    /\ running' = FALSE
    /\ stopped' = TRUE
    /\ auth_last' = AuthStep("stop")
    /\ UNCHANGED <<clock, client_id, env_token, keyring, credentials, engine,
                   since_built, tm>>
    /\ UNCHANGED <<sync_vars, poll, pkce, server, watcher, threads, table>>

\* a process start: the environment, and what earlier runs left in the stores
TokenInit ==
    /\ SyncIdle
    /\ PollIdle
    /\ PkceIdle
    /\ ServerIdle /\ WatcherIdle /\ ThreadsIdle /\ TableIdle
    /\ clock = 0
    /\ client_id \in BOOLEAN
    /\ env_token \in EnvTokens
    /\ keyring \in {<<>>, <<TokenData("A0", "R0", 61)>>}
    /\ credentials \in {<<>>, <<TokenData("A0", "R0", 61)>>}
    /\ engine = <<>>
    /\ since_built = FALSE
    /\ running = FALSE
    /\ tm = TmTask("new")
    /\ stopped = FALSE
    /\ auth_last = AuthStep("init")

TokenNext ==
    \/ TokenClock
    \/ \E callback \in CallbackOutcomes, exchanged \in GrantOutcomes :
           desktop_login(callback, exchanged)
    \/ \E device \in BOOLEAN, polled \in PollOutcomes : login(device, polled)
    \/ logout
    \/ sign_out
    \/ create_shared_engine
    \/ \E grant \in GrantOutcomes : upload_request(grant)
    \/ start_background_refresh
    \/ mark_running
    \/ check_interval_tick
    \/ \E grant \in GrantOutcomes : do_refresh(grant)
    \/ stop

TokenSpec == TokenInit /\ [][TokenNext]_vars

\* ====================================================================
\* Properties of the credentials
\* ====================================================================
\* the store holds a record that does not need a refresh yet
HoldsValid(store, t) == store # <<>> /\ store[1].expires_at > t + 60

\* C11: token resolution for an upload puts a valid token of the credential
\* store first, whatever the fallback: an upload made while the credential
\* store holds a valid token, and credentials.json holds nothing, carries
\* that token as bearer, also when a fallback token was supplied.
C11_StoredTokenFirst ==
    (/\ auth_last.op = "upload"
     /\ HoldsValid(keyring, clock)
     /\ credentials = <<>>
     /\ engine[1] # <<>>)
        => auth_last.sent = <<keyring[1].access_token>>

\* C12: whenever the credential store holds a record written after the
\* engine was constructed, by a PKCE login or by a background refresh, the
\* next upload carries that record's access token.
C12_UploadCarriesStoredRecord ==
    [][(auth_last'.op = "upload" /\ since_built /\ keyring # <<>>)
          => auth_last'.sent = <<keyring[1].access_token>>]_vars

C14_RefreshAllOrNothing ==
    [][(auth_last'.op = "do_refresh" \/ (auth_last'.op = "tick" /\ auth_last'.error))
          => LET response == auth_last'.refresh
             IN  IF response = <<>>
                 THEN keyring' = keyring
                 ELSE keyring' = <<TokenData(response[1].access_token,
                                             response[1].refresh_token,
                                             clock + response[1].expires_in)>>]_vars

\* a refresh has replaced a stored record by the record of its response
C14_Witness ==
    /\ auth_last.op = "do_refresh"
    /\ auth_last.refresh # <<>>
    /\ keyring = <<TokenData(auth_last.refresh[1].access_token,
                             auth_last.refresh[1].refresh_token,
                             clock + auth_last.refresh[1].expires_in)>>
    /\ tm.at = "tick"

\* C15: once stop() has completed, the refresh loop exits at its next tick
\* and starts no refresh at that tick.
C15_StopHaltsAtNextTick ==
    [][(stopped /\ auth_last'.op = "tick")
          => (tm'.at = "exited" /\ ~auth_last'.request)]_vars

\* C16: a record appears in the credential store only by a successful login:
\* after sign-out the store stays empty until the next login, and a refresh
\* that was in flight at sign-out writes nothing back.
C16_RecordOnlyByLogin ==
    [][(keyring = <<>> /\ keyring' # <<>>) => auth_last'.op = "desktop_login"]_vars

\* C24: a login flow that fails (no client id, the device authorization
\* refused, the poll ending in expired, denied, another error or the timeout,
\* the callback delivering an error or none, the code exchange failing)
\* leaves both stores exactly as they were; a flow writes its store only
\* with the record of the token response it obtained.
C24_StoreOnlyOnSuccess ==
    [][auth_last'.op \in {"login", "desktop_login"} =>
         IF auth_last'.token = <<>>
         THEN keyring' = keyring /\ credentials' = credentials
         ELSE LET r == auth_last'.token[1]
                  record == <<TokenData(r.access_token, r.refresh_token,
                                        clock + r.expires_in)>>
              IN  IF auth_last'.op = "login"
                  THEN credentials' = record /\ keyring' = keyring
                  ELSE keyring' = record /\ credentials' = credentials]_vars

\* a PKCE login whose code exchange failed has left the stored record of an
\* earlier login where it was
C24_Witness ==
    /\ auth_last.op = "desktop_login"
    /\ auth_last.cause = "exchange_code_for_token"
    /\ keyring # <<>>
    /\ engine # <<>>

\* ====================================================================
\* Device-code polling: poll_for_token of auth.rs.  Time is start.elapsed()
\* in whole seconds.  The future is suspended at three awaits: the sleep
\* before a request, the request, and the sleep after slow_down.  A sleep
\* lasts at least its duration and may last longer; a request takes time.
\* ====================================================================
MaxTimeout == 8          \* timeout (the provider's expires_in) is in 0..MaxTimeout

SLOW_DOWN_SECS == 5

Intervals == {1, 2}      \* the provider's polling interval, in seconds
Lateness == {0, 1}       \* how much later than asked a sleep may end
Latency == {0, 1}        \* how long a request may take

ErrorCodes ==
    {"authorization_pending", "slow_down", "expired_token", "access_denied",
     "invalid_grant"}

\* what one token request can come back with: a TokenResponse, a WorkOSError
\* with or without error_description, or no decodable response at all
Answers ==
    {[kind |-> "success", code |-> "", description |-> <<>>, token |-> t] :
        t \in {"T1", "T2"}}
    \cup {[kind |-> "failed", code |-> "", description |-> <<>>, token |-> ""]}
    \cup {[kind |-> "error", code |-> c, description |-> d, token |-> ""] :
             c \in ErrorCodes, d \in {<<>>, <<"why">>}}

\* Option<String>::unwrap_or_default
unwrap_or_default(d) == IF d = <<>> THEN "" ELSE d[1]

never_timed_out(elapsed, timeout) == FALSE

\* line 137: start.elapsed() >= timeout
timed_out(elapsed, timeout) == elapsed >= timeout

on_error_pending_fails(code, description) ==
    CASE code = "authorization_pending" ->
             [at |-> "done", result |-> <<"Err", "AuthorizationPending">>]
      [] code = "slow_down" -> [at |-> "slow_down", result |-> <<>>]
      [] code = "expired_token" ->
             [at |-> "done", result |-> <<"Err", "DeviceCodeExpired">>]
      [] code = "access_denied" ->
             [at |-> "done", result |-> <<"Err", "AuthorizationDenied">>]
      [] OTHER ->
             [at |-> "done",
              result |-> <<"Err", "Api", code, unwrap_or_default(description)>>]

on_error_without_description(code, description) ==
    CASE code = "authorization_pending" -> [at |-> "check", result |-> <<>>]
      [] code = "slow_down" -> [at |-> "slow_down", result |-> <<>>]
      [] code = "expired_token" ->
             [at |-> "done", result |-> <<"Err", "DeviceCodeExpired">>]
      [] code = "access_denied" ->
             [at |-> "done", result |-> <<"Err", "AuthorizationDenied">>]
      [] OTHER -> [at |-> "done", result |-> <<"Err", "Api", code, "">>]

\* the match on error.error, lines 161-184: where the loop goes, what it returns
on_error(code, description) ==
    CASE code = "authorization_pending" -> [at |-> "check", result |-> <<>>]
      [] code = "slow_down" -> [at |-> "slow_down", result |-> <<>>]
      [] code = "expired_token" ->
             [at |-> "done", result |-> <<"Err", "DeviceCodeExpired">>]
      [] code = "access_denied" ->
             [at |-> "done", result |-> <<"Err", "AuthorizationDenied">>]
      [] OTHER ->
             [at |-> "done",
              result |-> <<"Err", "Api", code, unwrap_or_default(description)>>]

\* the top of the loop: the timeout check, then the sleep begins
poll_check ==
    /\ poll.at = "check"
    /\ poll' = IF timed_out(poll.elapsed, poll.timeout)
               THEN [poll EXCEPT !.at = "done",
                                 !.result = <<"Err", "DeviceCodeExpired">>]
               ELSE [poll EXCEPT !.at = "sleep"]
    /\ UNCHANGED <<sync_vars, token_vars, pkce, server, watcher, threads, table>>

\* sleep(interval) ends and the request is sent.  A request follows a check
\* that found elapsed < timeout and a sleep of a second or more, so there
\* are never more than MaxTimeout of them.
poll_send(late) ==
    /\ poll.at = "sleep"
    /\ poll.requests < MaxTimeout
    /\ poll' = [poll EXCEPT !.at = "request",
                            !.elapsed = @ + poll.interval + late,
                            !.sent_at = poll.elapsed + poll.interval + late,
                            !.requests = @ + 1]
    /\ UNCHANGED <<sync_vars, token_vars, pkce, server, watcher, threads, table>>

\* the response arrives: lines 152-185
poll_response(answer, took) ==
    /\ poll.at = "request"
    /\ LET next == IF answer.kind = "success"
                   THEN [at |-> "done", result |-> <<"Ok", answer.token>>]
                   ELSE IF answer.kind = "failed"
                   THEN \* send().await? or json().await? : Err(Http)
                        [at |-> "done", result |-> <<"Err", "Http">>]
                   ELSE on_error(answer.code, answer.description)
       IN  poll' = [poll EXCEPT
                       !.at = next.at,
                       !.result = next.result,
                       !.elapsed = @ + took,
                       !.answered_at = poll.elapsed + took,
                       !.answer = answer,
                       !.pendings = IF answer.code = "authorization_pending"
                                    THEN @ + 1 ELSE @,
                       !.slow_downs = IF answer.code = "slow_down"
                                      THEN @ + 1 ELSE @]
    /\ UNCHANGED <<sync_vars, token_vars, pkce, server, watcher, threads, table>>

\* a slow_down branch that also lengthens the interval for good
interval_lengthened(interval) == interval + SLOW_DOWN_SECS

\* the slow_down branch sleeps and continues: `interval` is a parameter that
\* nothing assigns (lines 167-171)
interval_after_slow_down(interval) == interval

\* the sleep after slow_down ends: line 169
poll_slow_down(late) ==
    /\ poll.at = "slow_down"
    /\ poll' = [poll EXCEPT !.at = "check",
                            !.interval = interval_after_slow_down(@),
                            !.elapsed = @ + SLOW_DOWN_SECS + late]
    /\ UNCHANGED <<sync_vars, token_vars, pkce, server, watcher, threads, table>>

\* login calls poll_for_token with the provider's interval and expires_in
PollInit ==
    /\ SyncIdle
    /\ TokenIdle
    /\ PkceIdle
    /\ ServerIdle /\ WatcherIdle /\ ThreadsIdle /\ TableIdle
    /\ \E interval \in Intervals, timeout \in 0..MaxTimeout :
           poll = PollLocals("check", interval, timeout)

PollNext ==
    \/ poll_check
    \/ \E late \in Lateness : poll_send(late)
    \/ \E answer \in Answers, took \in Latency : poll_response(answer, took)
    \/ \E late \in Lateness : poll_slow_down(late)

PollSpec == PollInit /\ [][PollNext]_vars

\* the runtime keeps polling the future: a sleep ends, a request is answered
PollFairSpec == PollSpec /\ WF_vars(PollNext)

\* ====================================================================
\* Properties of the device-code poll
\* ====================================================================
\* the step in which a token request is answered
Answered == poll.at = "request" /\ poll'.at # "request"

\* C17: authorization_pending keeps the poll going; when the first N answers
\* were authorization_pending and the next is a success, poll_for_token
\* returns that token, having sent exactly N+1 requests; and every request
\* is sent at least `interval` seconds after the start or the request before.
C17_PendingThenSuccess ==
    [][/\ (Answered /\ poll'.answer.code = "authorization_pending")
              => (poll'.at = "check" /\ poll'.result = <<>>)
       /\ (Answered /\ poll'.answer.kind = "success" /\ poll.slow_downs = 0)
              => /\ poll'.at = "done"
                 /\ poll'.result = <<"Ok", poll'.answer.token>>
                 /\ poll'.requests = poll.pendings + 1
       /\ (poll'.requests = poll.requests + 1)
              => (poll'.sent_at >= poll.sent_at + poll.interval)]_vars

\* two authorization_pending answers, then the success, in three requests
C17_Witness ==
    /\ poll.at = "done"
    /\ poll.result = <<"Ok", "T2">>
    /\ poll.pendings = 2
    /\ poll.slow_downs = 0
    /\ poll.requests = 3

\* C18: expired_token fails with DeviceCodeExpired, access_denied with
\* AuthorizationDenied, any other code but authorization_pending and
\* slow_down with an Api error carrying the code and the description;
\* authorization_pending and slow_down return nothing to the caller.
C18_ErrorMapping ==
    [][(Answered /\ poll'.answer.kind = "error")
          => LET code == poll'.answer.code
                 description == poll'.answer.description
             IN  /\ code = "expired_token"
                        => poll'.result = <<"Err", "DeviceCodeExpired">>
                 /\ code = "access_denied"
                        => poll'.result = <<"Err", "AuthorizationDenied">>
                 /\ code \in {"authorization_pending", "slow_down"}
                        => (poll'.result = <<>> /\ poll'.at # "done")
                 /\ code \notin {"expired_token", "access_denied",
                                 "authorization_pending", "slow_down"}
                        => /\ poll'.at = "done"
                           /\ poll'.result =
                                 <<"Err", "Api", code,
                                   IF description = <<>> THEN "" ELSE description[1]>>]_vars

\* an unknown error code came with a description, and both were returned
C18_Witness ==
    /\ poll.at = "done"
    /\ poll.answer.code = "invalid_grant"
    /\ poll.answer.description = <<"why">>
    /\ poll.result = <<"Err", "Api", "invalid_grant", "why">>

\* every answer so far was authorization_pending or slow_down
OnlyRecoverable == poll.requests = poll.pendings + poll.slow_downs

\* C19: poll_for_token terminates, and against a provider that answers
\* nothing but authorization_pending and slow_down it returns
\* DeviceCodeExpired.
C19_PollTimesOut ==
    <>(/\ poll.at = "done"
       /\ OnlyRecoverable => poll.result = <<"Err", "DeviceCodeExpired">>)

\* the timeout ended a poll that had seen both recoverable answers
C19_Witness ==
    /\ poll.at = "done"
    /\ OnlyRecoverable
    /\ poll.pendings >= 1
    /\ poll.slow_downs >= 1
    /\ poll.result = <<"Err", "DeviceCodeExpired">>

\* the step in which a token request is sent
Sent == poll'.requests = poll.requests + 1

C40_NoRequestAfterTimeout ==
    /\ poll.requests > 0 => poll.sent_at < poll.timeout
    /\ poll.timeout = 0 =>
          /\ poll.requests = 0
          /\ poll.at = "done" => poll.result = <<"Err", "DeviceCodeExpired">>

\* what the loop does guarantee: the check that precedes a request found
\* elapsed < timeout, so a request is sent less than one sleep after
\* `timeout`; with timeout = 0 the first check ends the poll
C40_CheckedBeforeSleep ==
    /\ poll.requests > 0 =>
          \E late \in Lateness : poll.sent_at - (poll.interval + late) < poll.timeout
    /\ poll.timeout = 0 =>
          /\ poll.requests = 0
          /\ poll.at = "done" => poll.result = <<"Err", "DeviceCodeExpired">>

\* ====================================================================
\* PKCE: PkceChallenge::generate of oauth.rs, with the two conversions it
\* is made of.  Bytes are numbers in 0..255, a text is a sequence of
\* one-character strings, a 32-bit word is a pair <<high, low>> of 16-bit
\* halves.
\* ====================================================================
\* the url-safe alphabet of base64 (RFC 4648, section 5)
Alphabet ==
    << "A", "B", "C", "D", "E", "F", "G", "H", "I", "J", "K", "L", "M",
       "N", "O", "P", "Q", "R", "S", "T", "U", "V", "W", "X", "Y", "Z",
       "a", "b", "c", "d", "e", "f", "g", "h", "i", "j", "k", "l", "m",
       "n", "o", "p", "q", "r", "s", "t", "u", "v", "w", "x", "y", "z",
       "0", "1", "2", "3", "4", "5", "6", "7", "8", "9", "-", "_" >>

\* the six-bit value a character of the alphabet stands for
Sextet(c) == (CHOOSE i \in 1..64 : Alphabet[i] = c) - 1

\* URL_SAFE_NO_PAD.encode: three bytes make four characters; one or two
\* bytes left over make two or three, and no '=' is added
RECURSIVE URL_SAFE_NO_PAD_encode(_)
URL_SAFE_NO_PAD_encode(bytes) ==
    IF Len(bytes) = 0 THEN <<>>
    ELSE IF Len(bytes) = 1
    THEN << Alphabet[(bytes[1] \div 4) + 1],
            Alphabet[((bytes[1] % 4) * 16) + 1] >>
    ELSE IF Len(bytes) = 2
    THEN << Alphabet[(bytes[1] \div 4) + 1],
            Alphabet[((bytes[1] % 4) * 16 + bytes[2] \div 16) + 1],
            Alphabet[((bytes[2] % 16) * 4) + 1] >>
    ELSE << Alphabet[(bytes[1] \div 4) + 1],
            Alphabet[((bytes[1] % 4) * 16 + bytes[2] \div 16) + 1],
            Alphabet[((bytes[2] % 16) * 4 + bytes[3] \div 64) + 1],
            Alphabet[(bytes[3] % 64) + 1] >>
         \o URL_SAFE_NO_PAD_encode(SubSeq(bytes, 4, Len(bytes)))

\* the US-ASCII code of a character of the alphabet
Ascii(c) ==
    LET s == Sextet(c)
    IN  IF s < 26 THEN 65 + s
        ELSE IF s < 52 THEN 97 + (s - 26)
        ELSE IF s < 62 THEN 48 + (s - 52)
        ELSE IF s = 62 THEN 45
        ELSE 95

\* str::as_bytes of a text over the alphabet
as_bytes(text) == [i \in 1..Len(text) |-> Ascii(text[i])]

\* ------------------------------------------------- SHA-256 (FIPS 180-4)
RECURSIVE Xor16(_, _, _)
Xor16(a, b, n) ==
    IF n = 0 THEN 0 ELSE ((a + b) % 2) + 2 * Xor16(a \div 2, b \div 2, n - 1)

RECURSIVE And16(_, _, _)
And16(a, b, n) ==
    IF n = 0 THEN 0 ELSE ((a % 2) * (b % 2)) + 2 * And16(a \div 2, b \div 2, n - 1)

XorNibble == [a \in 0..15 |-> [b \in 0..15 |-> Xor16(a, b, 4)]]
AndNibble == [a \in 0..15 |-> [b \in 0..15 |-> And16(a, b, 4)]]

XorHalf(a, b) ==
    XorNibble[a % 16][b % 16]
    + 16 * XorNibble[(a \div 16) % 16][(b \div 16) % 16]
    + 256 * XorNibble[(a \div 256) % 16][(b \div 256) % 16]
    + 4096 * XorNibble[a \div 4096][b \div 4096]

AndHalf(a, b) ==
    AndNibble[a % 16][b % 16]
    + 16 * AndNibble[(a \div 16) % 16][(b \div 16) % 16]
    + 256 * AndNibble[(a \div 256) % 16][(b \div 256) % 16]
    + 4096 * AndNibble[a \div 4096][b \div 4096]

WXor(x, y) == <<XorHalf(x[1], y[1]), XorHalf(x[2], y[2])>>
WAnd(x, y) == <<AndHalf(x[1], y[1]), AndHalf(x[2], y[2])>>
WNot(x) == <<65535 - x[1], 65535 - x[2]>>

\* addition modulo 2^32
WAdd(x, y) ==
    LET low == x[2] + y[2]
        high == x[1] + y[1] + (low \div 65536)
    IN  <<high % 65536, low % 65536>>

Rotr(x, n) ==
    LET y == IF n >= 16 THEN <<x[2], x[1]>> ELSE x
        m == n % 16
    IN  IF m = 0 THEN y
        ELSE << (y[1] \div 2^m) + (y[2] % 2^m) * 2^(16 - m),
                (y[2] \div 2^m) + (y[1] % 2^m) * 2^(16 - m) >>

\* a shift right by fewer than 16 bits
Shr(x, n) == << x[1] \div 2^n, (x[2] \div 2^n) + (x[1] % 2^n) * 2^(16 - n) >>

Ch(x, y, z) == WXor(WAnd(x, y), WAnd(WNot(x), z))
Maj(x, y, z) == WXor(WXor(WAnd(x, y), WAnd(x, z)), WAnd(y, z))
BigSigma0(x) == WXor(WXor(Rotr(x, 2), Rotr(x, 13)), Rotr(x, 22))
BigSigma1(x) == WXor(WXor(Rotr(x, 6), Rotr(x, 11)), Rotr(x, 25))
SmallSigma0(x) == WXor(WXor(Rotr(x, 7), Rotr(x, 18)), Shr(x, 3))
SmallSigma1(x) == WXor(WXor(Rotr(x, 17), Rotr(x, 19)), Shr(x, 10))

\* the round constants and the initial hash value
K256 ==
    <<
      <<17034, 12184>>, <<28983, 17553>>, <<46528, 64463>>, <<59829, 56229>>,
      <<14678, 49755>>, <<23025, 4593>>, <<37439, 33444>>, <<43804, 24277>>,
      <<55303, 43672>>, <<4739, 23297>>, <<9265, 34238>>, <<21772, 32195>>,
      <<29374, 23924>>, <<32990, 45566>>, <<39900, 1703>>, <<49563, 61812>>,
      <<58523, 27073>>, <<61374, 18310>>, <<4033, 40390>>, <<9228, 41420>>,
      <<11753, 11375>>, <<19060, 33962>>, <<23728, 43484>>, <<30457, 35034>>,
      <<38974, 20818>>, <<43057, 50797>>, <<45059, 10184>>, <<48985, 32711>>,
      <<50912, 3059>>, <<54695, 37191>>, <<1738, 25425>>, <<5161, 10599>>,
      <<10167, 2693>>, <<11803, 8504>>, <<19756, 28156>>, <<21304, 3347>>,
      <<25866, 29524>>, <<30314, 2747>>, <<33218, 51502>>, <<37490, 11397>>,
      <<41663, 59553>>, <<43034, 26187>>, <<49739, 35696>>, <<51052, 20899>>,
      <<53650, 59417>>, <<54937, 1572>>, <<62478, 13701>>, <<4202, 41072>>,
      <<6564, 49430>>, <<7735, 27656>>, <<10056, 30540>>, <<13488, 48309>>,
      <<14620, 3251>>, <<20184, 43594>>, <<23452, 51791>>, <<26670, 28659>>,
      <<29839, 33518>>, <<30885, 25455>>, <<33992, 30740>>, <<36039, 520>>,
      <<37054, 65530>>, <<42064, 27883>>, <<48889, 41975>>, <<50801, 30962>> >>

H256 ==
    <<
      <<27145, 58983>>, <<47975, 44677>>, <<15470, 62322>>, <<42319, 62778>>,
      <<20750, 21119>>, <<39685, 26764>>, <<8067, 55723>>, <<23520, 52505>> >>

\* the padded message of fewer than 56 bytes: one block of 64 bytes
Padded(bytes) ==
    [i \in 1..64 |->
        IF i <= Len(bytes) THEN bytes[i]
        ELSE IF i = Len(bytes) + 1 THEN 128
        ELSE IF i = 63 THEN (8 * Len(bytes)) \div 256
        ELSE IF i = 64 THEN (8 * Len(bytes)) % 256
        ELSE 0]

\* the 16 words of a block, big-endian
BlockWords(block) ==
    [t \in 1..16 |-> << block[4 * t - 3] * 256 + block[4 * t - 2],
                        block[4 * t - 1] * 256 + block[4 * t] >>]

\* the message schedule, from its first 16 words to all 64
RECURSIVE Schedule(_)
Schedule(w) ==
    IF Len(w) = 64 THEN w
    ELSE LET t == Len(w) + 1
         IN  Schedule(Append(w, WAdd(WAdd(SmallSigma1(w[t - 2]), w[t - 7]),
                                     WAdd(SmallSigma0(w[t - 15]), w[t - 16]))))

\* rounds t..64 on the working variables <<a, b, c, d, e, f, g, h>>; taking
\* their number makes TLC evaluate them at every round
RECURSIVE Rounds(_, _, _)
Rounds(v, w, t) ==
    IF t > 64 \/ Len(v) # 8 THEN v
    ELSE LET t1 == WAdd(WAdd(WAdd(v[8], BigSigma1(v[5])),
                             WAdd(Ch(v[5], v[6], v[7]), K256[t])), w[t])
             t2 == WAdd(BigSigma0(v[1]), Maj(v[1], v[2], v[3]))
         IN  Rounds(<< WAdd(t1, t2), v[1], v[2], v[3],
                       WAdd(v[4], t1), v[5], v[6], v[7] >>, w, t + 1)

\* Sha256::new, update(bytes), finalize: the digest's 32 bytes
Sha256(bytes) ==
    LET w == Schedule(BlockWords(Padded(bytes)))
        v == Rounds(H256, w, 1)
        h == [i \in 1..8 |-> WAdd(H256[i], v[i])]
    IN  [i \in 1..32 |->
            LET word == h[((i - 1) \div 4) + 1]
                half == word[(((i - 1) % 4) \div 2) + 1]
            IN  IF i % 2 = 1 THEN half \div 256 ELSE half % 256]

\* base64::decode of a text over the alphabet, no padding expected
RECURSIVE URL_SAFE_NO_PAD_decode(_)
URL_SAFE_NO_PAD_decode(text) ==
    IF Len(text) < 2 THEN <<>>
    ELSE LET s1 == Sextet(text[1])
             s2 == Sextet(text[2])
         IN  IF Len(text) = 2 THEN << s1 * 4 + s2 \div 16 >>
             ELSE IF Len(text) = 3
             THEN << s1 * 4 + s2 \div 16,
                     (s2 % 16) * 16 + Sextet(text[3]) \div 4 >>
             ELSE << s1 * 4 + s2 \div 16,
                     (s2 % 16) * 16 + Sextet(text[3]) \div 4,
                     (Sextet(text[3]) % 4) * 64 + Sextet(text[4]) >>
                  \o URL_SAFE_NO_PAD_decode(SubSeq(text, 5, Len(text)))

MaxStride == 7           \* the strides of the byte patterns are in 0..MaxStride

\* where a pattern starts
FirstBytes == {17 * k : k \in 0..15}

\* the code_verifier octets of RFC 7636, appendix B
Rfc7636 ==
    << 116, 24, 223, 180, 151, 153, 224, 37, 79, 250, 96, 125, 216, 173, 187,
       186, 22, 212, 37, 77, 105, 214, 191, 240, 91, 88, 5, 88, 83, 132, 141,
       121 >>

\* what thread_rng().fill_bytes may leave in verifier_bytes, in part
RandomBytes ==
    {Rfc7636} \cup
    {[i \in 1..32 |-> (first + (i - 1) * stride) % 256] :
        first \in FirstBytes, stride \in 0..MaxStride}

generate_hashing_bytes(verifier_bytes) ==
    [verifier_bytes |-> verifier_bytes,
     verifier |-> URL_SAFE_NO_PAD_encode(verifier_bytes),
     challenge |-> URL_SAFE_NO_PAD_encode(Sha256(verifier_bytes))]

\* PkceChallenge::generate after fill_bytes: lines 52-61
PkceChallenge_generate(verifier_bytes) ==
    LET verifier == URL_SAFE_NO_PAD_encode(verifier_bytes)
    IN  [verifier_bytes |-> verifier_bytes,
         verifier |-> verifier,
         challenge |-> URL_SAFE_NO_PAD_encode(Sha256(as_bytes(verifier)))]

\* DesktopOAuthFlow::new calls generate once for a flow: lines 47-62
generate(verifier_bytes) ==
    /\ pkce = <<>>
    /\ pkce' = <<PkceChallenge_generate(verifier_bytes)>>
    /\ UNCHANGED <<sync_vars, token_vars, poll, server, watcher, threads, table>>

\* the flow ends and its PkceChallenge is dropped
pkce_dropped ==
    /\ pkce # <<>>
    /\ pkce' = <<>>
    /\ UNCHANGED <<sync_vars, token_vars, poll, server, watcher, threads, table>>

PkceInit ==
    /\ SyncIdle /\ TokenIdle /\ PollIdle /\ PkceIdle
    /\ ServerIdle /\ WatcherIdle /\ ThreadsIdle /\ TableIdle

PkceNext ==
    \/ \E verifier_bytes \in RandomBytes : generate(verifier_bytes)
    \/ pkce_dropped

PkceSpec == PkceInit /\ [][PkceNext]_vars

\* ====================================================================
\* Properties of PKCE
\* ====================================================================
\* C20: the challenge of every generated pair is the url-safe base64,
\* without padding, of the SHA-256 digest of the verifier's characters; the
\* verifier is 43 characters of the url-safe alphabet and decodes to the 32
\* random bytes it was made from.
C20_PkceDerivation ==
    pkce # <<>> =>
        /\ Len(pkce[1].verifier_bytes) = 32
        /\ Len(pkce[1].verifier) = 43
        /\ \A i \in 1..Len(pkce[1].verifier) :
               \E k \in 1..64 : Alphabet[k] = pkce[1].verifier[i]
        /\ URL_SAFE_NO_PAD_decode(pkce[1].verifier) = pkce[1].verifier_bytes
        /\ pkce[1].challenge =
               URL_SAFE_NO_PAD_encode(Sha256(as_bytes(pkce[1].verifier)))

\* generate() drew the octets of RFC 7636, appendix B, and returned the
\* code_verifier and the code_challenge printed there
C20_Witness ==
    /\ pkce # <<>>
    /\ pkce[1].verifier_bytes = Rfc7636
    /\ pkce[1].verifier =
           << "d", "B", "j", "f", "t", "J", "e", "Z", "4", "C", "V", "P", "-",
              "m", "B", "9", "2", "K", "2", "7", "u", "h", "b", "U", "J", "U",
              "1", "p", "1", "r", "_", "w", "W", "1", "g", "F", "W", "F", "O",
              "E", "j", "X", "k" >>
    /\ pkce[1].challenge =
           << "E", "9", "M", "e", "l", "h", "o", "a", "2", "O", "w", "v", "F",
              "r", "E", "M", "T", "J", "g", "u", "C", "H", "a", "o", "e", "K",
              "1", "t", "8", "U", "R", "W", "b", "u", "G", "J", "S", "s", "t",
              "w", "-", "c", "M" >>

\* ====================================================================
\* oauth.rs: the loopback server that receives the OAuth callback.
\* A connection is served by a task of its own, so a request is handled in
\* two steps: handle_callback up to result_tx.lock().await, then the
\* critical section that takes the sender and sends.  The tasks of the
\* connections outlive the accept loop.
\* ====================================================================
Conns == {1, 2}          \* the connections the listener accepts
QueryLengths == 0..2     \* how many parameters a query string has

CALLBACK == <<"/", "c", "a", "l", "l", "b", "a", "c", "k">>

\* uri().path() of the requests: /callback, /callback2 and /call
RequestPaths == {CALLBACK, CALLBACK \o <<"2">>, <<"/", "c", "a", "l", "l">>}

\* the key=value pairs a query string is made of
QueryPairs ==
    {<<"error", "denied">>, <<"error_description", "why">>,
     <<"code", "c1">>, <<"code", "c2">>, <<"state", "s1">>}

\* uri().query(): key=value pairs in the order they are written
Queries == UNION {[1..n -> QueryPairs] : n \in QueryLengths}

\* str::starts_with
starts_with(text, prefix) ==
    /\ Len(text) >= Len(prefix)
    /\ SubSeq(text, 1, Len(prefix)) = prefix

\* form_urlencoded::parse(..).into_owned().collect() into a HashMap: of two
\* pairs with one key the later one stays
form_urlencoded_parse(query) ==
    [k \in {query[i][1] : i \in DOMAIN query} |->
        LET at == CHOOSE i \in DOMAIN query :
                      /\ query[i][1] = k
                      /\ \A j \in DOMAIN query : query[j][1] = k => j <= i
        IN  query[at][2]]

\* HashMap::get: <<>> for None
params_get(params, key) ==
    IF key \in DOMAIN params THEN <<params[key]>> ELSE <<>>

\* Err(OAuthError::AuthorizationFailed(format!("{}: {}", error, error_desc)))
AuthorizationFailed(error, error_desc) ==
    [ok |-> FALSE, message |-> <<error, ": ", error_desc>>]

\* Ok(CallbackResult { code, state })
CallbackResult(code, state) == [ok |-> TRUE, code |-> code, state |-> state]

\* handle_callback (lines 165-260): the status of the response, and the
\* result it goes on to send, if any
handle_callback(path, params) ==
    IF ~starts_with(path, CALLBACK)
    THEN [status |-> 404, result |-> <<>>]
    ELSE IF params_get(params, "error") # <<>>
    THEN [status |-> 200,
          result |-> <<AuthorizationFailed(params["error"],
                          IF params_get(params, "error_description") # <<>>
                          THEN params["error_description"]
                          ELSE "Unknown error")>>]
    ELSE IF params_get(params, "code") # <<>>
    THEN [status |-> 200,
          result |-> <<CallbackResult(params["code"], params_get(params, "state"))>>]
    ELSE [status |-> 400, result |-> <<>>]

\* a sender that stays in the Option after it was used
take_leaves_sender(result_tx) == result_tx

\* Option::take: what is left in the Option
take(result_tx) == FALSE

\* the oneshot receiver is alive while the LoopbackServer is
receiver_alive == server.owner \in {"held", "waiting"}

\* LoopbackServer::start (lines 88-149), the bind having succeeded
LoopbackServer_start ==
    /\ server.at = "none"
    /\ server' = [server EXCEPT !.at = "listening", !.owner = "held",
                                !.result_tx = TRUE,
                                !.conns = [c \in Conns |-> NoConn],
                                !.last = ServerStep("start")]
    /\ UNCHANGED <<sync_vars, token_vars, poll, pkce, watcher, threads, table>>

\* listener.accept() in the loop: the connection gets its task (113-134)
accept(c) ==
    /\ server.at = "listening"
    /\ server.conns[c].at = "free"
    /\ server' = [server EXCEPT !.conns[c].at = "open",
                                !.last = [ServerStep("accept") EXCEPT !.conn = c]]
    /\ UNCHANGED <<sync_vars, token_vars, poll, pkce, watcher, threads, table>>

\* a request arrives on a connection: handle_callback up to the lock, or
\* to its response when it sends nothing
request(c, path, query) ==
    LET params == form_urlencoded_parse(query)
        handled_as == handle_callback(path, params)
    IN  /\ server.at # "none"
        /\ server.conns[c].at = "open"
        /\ server' =
             [server EXCEPT
                !.conns[c] = IF handled_as.result = <<>> THEN @
                             ELSE [at |-> "locking", result |-> handled_as.result],
                !.last = [ServerStep("request") EXCEPT
                            !.conn = c, !.path = path, !.params = params,
                            !.status = IF handled_as.result = <<>>
                                       THEN handled_as.status ELSE 0,
                            !.result = handled_as.result]]
        /\ UNCHANGED <<sync_vars, token_vars, poll, pkce, watcher, threads, table>>

\* the critical section of handle_callback and its response (194-196,
\* 224-226): tx.send fails when the receiver is gone
deliver(c) ==
    LET tx == server.result_tx
        sends_it == tx /\ receiver_alive
    IN  /\ server.at # "none"
        /\ server.conns[c].at = "locking"
        /\ server' =
             [server EXCEPT
                !.result_tx = IF tx THEN take(tx) ELSE FALSE,
                !.sent = IF sends_it THEN server.conns[c].result ELSE @,
                !.sends = IF sends_it THEN @ + 1 ELSE @,
                !.first = IF @ = <<>> THEN server.conns[c].result ELSE @,
                !.conns[c] = [at |-> "open", result |-> <<>>],
                !.last = [ServerStep("deliver") EXCEPT
                            !.conn = c, !.status = 200,
                            !.result = server.conns[c].result,
                            !.delivered = sends_it]]
        /\ UNCHANGED <<sync_vars, token_vars, poll, pkce, watcher, threads, table>>

\* the peer closes a connection; a request waiting for the lock is dropped
\* with the connection's task
disconnect(c) ==
    /\ server.at # "none"
    /\ server.conns[c].at \in {"open", "locking"}
    /\ server' = [server EXCEPT !.conns[c] = NoConn,
                                !.last = [ServerStep("disconnect") EXCEPT !.conn = c]]
    /\ UNCHANGED <<sync_vars, token_vars, poll, pkce, watcher, threads, table>>

\* LoopbackServer::wait_for_callback (159-161) starts to wait
wait_for_callback ==
    /\ server.owner = "held"
    /\ server' = [server EXCEPT !.owner = "waiting",
                                !.last = ServerStep("wait_for_callback")]
    /\ UNCHANGED <<sync_vars, token_vars, poll, pkce, watcher, threads, table>>

\* result_rx resolves: wait_for_callback returns and drops the server
callback_received ==
    /\ server.owner = "waiting"
    /\ server.sent # <<>>
    /\ server' = [server EXCEPT !.owner = "returned", !.returned = server.sent,
                                !.last = ServerStep("callback_received")]
    /\ UNCHANGED <<sync_vars, token_vars, poll, pkce, watcher, threads, table>>

\* the flow is abandoned: the LoopbackServer, or the future waiting on it,
\* is dropped, and with it result_rx and _shutdown_tx
flow_dropped ==
    /\ server.owner \in {"held", "waiting"}
    /\ server' = [server EXCEPT !.owner = "dropped",
                                !.last = ServerStep("flow_dropped")]
    /\ UNCHANGED <<sync_vars, token_vars, poll, pkce, watcher, threads, table>>

\* a receiver that resolves only when something is sent to it
resolved_by_send_only(owner) == FALSE

\* &mut shutdown_rx resolves, with Err(RecvError), once _shutdown_tx is
\* dropped with the LoopbackServer, and the branch's pattern `_` takes it
shutdown_rx_resolved(owner) == owner \in {"returned", "dropped"}

\* the select! of the accept loop finds shutdown_rx resolved: break, and the
\* listener is dropped with the task (108-111)
shutdown ==
    /\ shutdown_rx_resolved(server.owner)
    /\ server.at = "listening"
    /\ server' = [server EXCEPT !.at = "closed", !.last = ServerStep("shutdown")]
    /\ UNCHANGED <<sync_vars, token_vars, poll, pkce, watcher, threads, table>>

CallbackInit ==
    /\ SyncIdle /\ TokenIdle /\ PollIdle /\ PkceIdle
    /\ ServerIdle /\ WatcherIdle /\ ThreadsIdle /\ TableIdle

CallbackNext ==
    \/ LoopbackServer_start
    \/ \E c \in Conns : accept(c)
    \/ \E c \in Conns, path \in RequestPaths, query \in Queries :
           request(c, path, query)
    \/ \E c \in Conns : deliver(c)
    \/ \E c \in Conns : disconnect(c)
    \/ wait_for_callback
    \/ callback_received
    \/ flow_dropped
    \/ shutdown

CallbackSpec == CallbackInit /\ [][CallbackNext]_vars

\* the runtime polls the accept loop's task when shutdown_rx is woken, and
\* select! picks among its ready branches at random
CallbackFairSpec == CallbackSpec /\ WF_vars(shutdown)

\* ====================================================================
\* Properties of the callback server
\* ====================================================================
\* C21: whatever requests arrive and however their connections interleave,
\* at most one result goes into the channel, and the result in the channel,
\* and the one wait_for_callback returns, is that of the first request with
\* a code or an error to reach the sender; no later request replaces it.
C21_SingleDelivery ==
    /\ server.sends <= 1
    /\ server.sent # <<>> => server.sent = server.first
    /\ server.returned # <<>> => server.returned = server.first

\* a second request, with another result, went through the critical section
\* after the waiting flow had received the first one
C21_Witness ==
    /\ server.last.op = "deliver"
    /\ ~server.last.delivered
    /\ server.returned # <<>>
    /\ server.last.result # server.returned
    /\ server.sends = 1

\* the handler has classified a request in this step
Classified == server'.last.op = "request"

\* C22: a request whose path is not /callback is answered 404 and nothing
\* is sent for it; a /callback request with an error parameter yields the
\* failure result with the error and its description; one with a code and
\* no error yields the success result with the code and the optional state;
\* one with neither is answered 400, yields nothing and leaves the flow
\* waiting as it was.
C22_Classification ==
    [][Classified =>
        LET l == server'.last
            error == params_get(l.params, "error")
            code == params_get(l.params, "code")
        IN  /\ l.path # CALLBACK => l.status = 404 /\ l.result = <<>>
            /\ l.path = CALLBACK /\ error # <<>> =>
                   l.result =
                     <<AuthorizationFailed(error[1],
                          IF params_get(l.params, "error_description") # <<>>
                          THEN l.params["error_description"]
                          ELSE "Unknown error")>>
            /\ l.path = CALLBACK /\ error = <<>> /\ code # <<>> =>
                   l.result =
                     <<CallbackResult(code[1], params_get(l.params, "state"))>>
            /\ l.path = CALLBACK /\ error = <<>> /\ code = <<>> =>
                   /\ l.status = 400 /\ l.result = <<>>
                   /\ server'.owner = server.owner
                   /\ server'.sent = server.sent
                   /\ server'.result_tx = server.result_tx]_vars

\* C23: once the LoopbackServer is dropped, after wait_for_callback
\* returned or without any callback, the accept loop ends and the listener
\* is closed.
C23_ListenerReleased ==
    (server.owner \in {"returned", "dropped"}) ~> (server.at = "closed")

\* the listener of a flow that was abandoned with no callback is closed,
\* while a connection it accepted is still open
C23_Witness ==
    /\ server.at = "closed"
    /\ server.owner = "dropped"
    /\ server.first = <<>>
    /\ \E c \in Conns : server.conns[c].at = "open"

\* ====================================================================
\* File watcher (watcher.rs)
\* ====================================================================

\* A path is the sequence of its components and a component the sequence of
\* the parts its dots separate: /a/b/y.jsonl is
\* << <<"a">>, <<"b">>, <<"y", "jsonl">> >>.
WatchPaths == {<< <<"a">> >>, << <<"a">>, <<"b">> >>, << <<"c">> >>}

\* the paths the notify backend reports: files under /a, /a/b and /c, the
\* hidden file /a/.jsonl, and a file under /ab, a sibling of /a
EventPaths ==
    {<< <<"a">>, <<"x", "jsonl">> >>,
     << <<"a">>, <<"b">>, <<"y", "jsonl">> >>,
     << <<"a">>, <<"x", "json">> >>,
     << <<"a">>, <<"", "jsonl">> >>,
     << <<"c">>, <<"z", "jsonl">> >>,
     << <<"ab">>, <<"x", "jsonl">> >>}

\* notify_debouncer_mini::DebouncedEvent
DebouncedEvents ==
    {[path |-> p, kind |-> "Any"] : p \in EventPaths}
    \cup {[path |-> << <<"a">>, <<"x", "jsonl">> >>, kind |-> "AnyContinuous"]}

BatchLengths == 0..2
Batches == UNION {[1..n -> DebouncedEvents] : n \in BatchLengths}

\* how many events the channel holds before try_recv takes one
ChannelLengths == 0..2

\* std::path::Path::starts_with: whole components
Path_starts_with(path, base) ==
    /\ Len(base) <= Len(path)
    /\ SubSeq(path, 1, Len(base)) = base

\* std::path::Path::extension: what follows the last dot of the file name,
\* none when the name has no dot or only a leading one
extension(path) ==
    LET file_name == path[Len(path)]
    IN  IF Len(file_name) = 1 THEN <<>>
        ELSE IF Len(file_name) = 2 /\ file_name[1] = "" THEN <<>>
        ELSE <<file_name[Len(file_name)]>>

\* find_parser_for_path: the parser of the first watched directory, in the
\* map's iteration order, that the path starts with; the set of the values
\* it can return (watcher.rs 144-154)
find_parser_for_path(path, watched_dirs) ==
    LET owners == {w \in DOMAIN watched_dirs : Path_starts_with(path, w)}
    IN  IF owners = {} THEN {<<>>} ELSE {<<watched_dirs[w]>> : w \in owners}

FileChangeEvent(path, parser_name) == [path |-> path, parser_name |-> parser_name]

\* a handler that forwards every change under a watched directory
emits_any_extension(kind, parser_name, ext) ==
    kind = "Any" /\ parser_name # <<>>

\* the three tests of the handler (watcher.rs 60, 64, 68)
emits(kind, parser_name, ext) ==
    kind = "Any" /\ parser_name # <<>> /\ ext = <<"jsonl">>

\* the events the handler sends for a batch, picks[i] being what
\* find_parser_for_path returned for the i-th event
RECURSIVE sent_events(_, _)
sent_events(batch, picks) ==
    IF batch = <<>> THEN <<>>
    ELSE LET event == Head(batch)
             parser_name == Head(picks)
         IN  (IF emits(event.kind, parser_name, extension(event.path))
              THEN <<FileChangeEvent(event.path, parser_name[1])>>
              ELSE <<>>)
             \o sent_events(Tail(batch), Tail(picks))

\* HashMap::insert and HashMap::remove
HashMap_insert(map, key, value) ==
    [k \in DOMAIN map \cup {key} |-> IF k = key THEN value ELSE map[k]]
HashMap_remove(map, key) == [k \in DOMAIN map \ {key} |-> map[k]]

\* a watcher step: what it was, its arguments, its result, the batch the
\* handler was given and the events it sent
WatchStep(op) ==
    [op |-> op, path |-> <<>>, parser_name |-> "", result |-> "Ok",
     batch |-> <<>>, emitted |-> <<>>]

\* FileWatcher::new (watcher.rs 45-95)
WatcherNew ==
    watcher = [watched_dirs |-> [w \in {} |-> ""], channel |-> <<>>,
               last |-> WatchStep("new")]

\* FileWatcher::watch (watcher.rs 98-114); exists is what path.exists()
\* returns, notify what the backend's watch returns
watch(path, parser_name, exists, notify) ==
    /\ watcher' =
         [watcher EXCEPT
            !.watched_dirs =
                IF exists /\ notify = "Ok" THEN HashMap_insert(@, path, parser_name)
                ELSE @,
            !.last = [WatchStep("watch") EXCEPT
                        !.path = path, !.parser_name = parser_name,
                        !.result = IF ~exists THEN "PathNotFound" ELSE notify]]
    /\ UNCHANGED <<sync_vars, token_vars, poll, pkce, server, threads, table>>

\* FileWatcher::unwatch (watcher.rs 117-125); notify is what the backend's
\* unwatch returns
unwatch(path, notify) ==
    /\ watcher' =
         [watcher EXCEPT
            !.watched_dirs = IF notify = "Ok" THEN HashMap_remove(@, path) ELSE @,
            !.last = [WatchStep("unwatch") EXCEPT !.path = path, !.result = notify]]
    /\ UNCHANGED <<sync_vars, token_vars, poll, pkce, server, threads, table>>

\* the debouncer's handler on a batch of events (watcher.rs 56-86)
event_handler(batch, picks) ==
    /\ \A i \in 1..Len(batch) :
          picks[i] \in find_parser_for_path(batch[i].path, watcher.watched_dirs)
    /\ LET emitted == sent_events(batch, picks)
       IN  /\ Len(watcher.channel) + Len(emitted) \in ChannelLengths
           /\ watcher' =
                [watcher EXCEPT
                   !.channel = @ \o emitted,
                   !.last = [WatchStep("events") EXCEPT
                               !.batch = batch, !.emitted = emitted]]
    /\ UNCHANGED <<sync_vars, token_vars, poll, pkce, server, threads, table>>

\* FileWatcher::try_recv (watcher.rs 138-140)
try_recv ==
    /\ watcher' =
         [watcher EXCEPT
            !.channel = IF @ = <<>> THEN @ ELSE Tail(@),
            !.last = [WatchStep("try_recv") EXCEPT
                        !.result = IF watcher.channel = <<>> THEN "None" ELSE "Some",
                        !.emitted = IF watcher.channel = <<>> THEN <<>>
                                    ELSE <<Head(watcher.channel)>>]]
    /\ UNCHANGED <<sync_vars, token_vars, poll, pkce, server, threads, table>>

WatchInit ==
    /\ SyncIdle /\ TokenIdle /\ PollIdle /\ PkceIdle
    /\ ServerIdle /\ WatcherNew /\ ThreadsIdle /\ TableIdle

WatchNext ==
    \/ \E path \in WatchPaths, parser_name \in ParserNames, exists \in BOOLEAN,
          notify \in {"Ok", "Notify"} : watch(path, parser_name, exists, notify)
    \/ \E path \in WatchPaths, notify \in {"Ok", "Notify"} : unwatch(path, notify)
    \/ \E batch \in Batches :
          \E picks \in [1..Len(batch) -> {<<>>} \cup {<<n>> : n \in ParserNames}] :
             event_handler(batch, picks)
    \/ try_recv

WatchSpec == WatchInit /\ [][WatchNext]_vars

\* C25: watch of a path that does not exist returns PathNotFound and leaves
\* the watched directories as they were; a watch that returns Ok leaves the
\* directory in the map with the parser given; after unwatch the directory
\* is not in the map.
C25_WatchUnwatch ==
    [][/\ (watcher'.last.op = "watch" /\ watcher'.last.result = "PathNotFound")
             => watcher'.watched_dirs = watcher.watched_dirs
       /\ (watcher'.last.op = "watch" /\ watcher'.last.result = "Ok")
             => /\ watcher'.last.path \in DOMAIN watcher'.watched_dirs
                /\ watcher'.watched_dirs[watcher'.last.path] = watcher'.last.parser_name
       /\ watcher'.last.op = "unwatch"
             => watcher'.last.path \notin DOMAIN watcher'.watched_dirs]_vars

\* the same with unwatch removing the directory when it returns Ok and
\* leaving the map as it was when it returns the backend's error
C25_UnwatchWhenOk ==
    [][/\ (watcher'.last.op = "watch" /\ watcher'.last.result # "Ok")
             => watcher'.watched_dirs = watcher.watched_dirs
       /\ (watcher'.last.op = "watch" /\ watcher'.last.result = "Ok")
             => /\ watcher'.last.path \in DOMAIN watcher'.watched_dirs
                /\ watcher'.watched_dirs[watcher'.last.path] = watcher'.last.parser_name
       /\ (watcher'.last.op = "unwatch" /\ watcher'.last.result = "Ok")
             => watcher'.last.path \notin DOMAIN watcher'.watched_dirs
       /\ (watcher'.last.op = "unwatch" /\ watcher'.last.result # "Ok")
             => watcher'.watched_dirs = watcher.watched_dirs]_vars

\* the events of a batch that are changes (kind Any) to a file with
\* extension jsonl under a directory of the map
RECURSIVE jsonl_under_watched(_, _)
jsonl_under_watched(batch, watched_dirs) ==
    IF batch = <<>> THEN <<>>
    ELSE (IF /\ Head(batch).kind = "Any"
             /\ extension(Head(batch).path) = <<"jsonl">>
             /\ \E w \in DOMAIN watched_dirs : Path_starts_with(Head(batch).path, w)
          THEN <<Head(batch).path>> ELSE <<>>)
         \o jsonl_under_watched(Tail(batch), watched_dirs)

\* C26: the events the handler sends for a batch are, in order, for exactly
\* the changed .jsonl files of the batch that lie under a directory watched
\* at that moment, each with the parser registered for a watched ancestor of
\* the file; nothing else reaches the channel, so a change to another file,
\* or under no watched directory (one unwatched included), sends nothing.
C26_OnlyWatchedJsonl ==
    [][/\ watcher'.last.op = "events"
             => LET emitted == watcher'.last.emitted
                IN  /\ [i \in 1..Len(emitted) |-> emitted[i].path]
                          = jsonl_under_watched(watcher'.last.batch,
                                                watcher.watched_dirs)
                    /\ \A i \in 1..Len(emitted) :
                          \E w \in DOMAIN watcher.watched_dirs :
                             /\ Path_starts_with(emitted[i].path, w)
                             /\ watcher.watched_dirs[w] = emitted[i].parser_name
                    /\ watcher'.channel = watcher.channel \o emitted
       /\ watcher'.last.op # "events"
             => Len(watcher'.channel) <= Len(watcher.channel)]_vars

\* a batch with a .jsonl file under a watched directory, a file of another
\* extension and a file under a directory that was unwatched: one event sent
C26_Witness ==
    /\ watcher.last.op = "events"
    /\ Len(watcher.last.batch) = 2
    /\ Len(watcher.last.emitted) = 1
    /\ watcher.last.emitted[1].path = << <<"a">>, <<"b">>, <<"y", "jsonl">> >>
    /\ DOMAIN watcher.watched_dirs = {<< <<"a">>, <<"b">> >>}
    /\ watcher.last.batch[1].path = << <<"c">>, <<"z", "jsonl">> >>

\* the most specific watched ancestor of a path that has one
longest_watched_ancestor(path, watched_dirs) ==
    LET owners == {w \in DOMAIN watched_dirs : Path_starts_with(path, w)}
    IN  CHOOSE w \in owners : \A v \in owners : Len(v) <= Len(w)

\* C34: every event the handler sends names the parser registered for the
\* longest watched directory that its file lies under.
C34_LongestPrefix ==
    [][watcher'.last.op = "events"
          => \A i \in 1..Len(watcher'.last.emitted) :
                LET event == watcher'.last.emitted[i]
                IN  event.parser_name =
                        watcher.watched_dirs[
                            longest_watched_ancestor(event.path, watcher.watched_dirs)]]_vars

\* ====================================================================
\* Threads over the shared engine (main.rs, sync.rs create_shared_engine)
\* ====================================================================

\* the event thread of run_desktop_app and the threads 'Sync Now' spawns
EventThreads == {1}
SyncNowThreads == {2, 3}
EngineThreads == EventThreads \cup SyncNowThreads

\* how many items the engine's queue holds
QueuedCounts == 0..2

\* where a thread is when it executes a method of the engine
InEngine == {"handle_file_change", "process_all", "process_next"}

\* what happened last: the thread that stepped, what it did, and whether it
\* held the engine's mutex when it did
ThreadStep(thread, op) == [thread |-> thread, op |-> op, held |-> FALSE]

\* create_shared_engine and the event thread at the top of its loop
ThreadsStart ==
    threads = [mutex |-> <<>>,
               at |-> [t \in EngineThreads |->
                          IF t \in EventThreads THEN "try_recv" ELSE "none"],
               queued |-> 0,
               last |-> ThreadStep(0, "create_shared_engine")]

\* a mutex that lets every caller in
lock_always_granted(mutex) == TRUE

\* std::sync::Mutex::lock returns when no thread holds the mutex
lock_granted(mutex) == mutex = <<>>

Moved(t, to, op) ==
    /\ threads' = [threads EXCEPT !.at[t] = to,
                                  !.last = [ThreadStep(t, op) EXCEPT
                                               !.held = (threads.mutex = <<t>>)]]

\* the event thread polls the watcher (main.rs 191-194): with an event it
\* goes on to lock the engine, without one it sleeps
event_try_recv(t, event) ==
    /\ t \in EventThreads
    /\ threads.at[t] = "try_recv"
    /\ Moved(t, IF event THEN "lock_handle" ELSE "sleep", "try_recv")
    /\ UNCHANGED <<sync_vars, token_vars, poll, pkce, server, watcher, table>>

\* std::thread::sleep(100 ms) (main.rs 220)
event_sleep(t) ==
    /\ t \in EventThreads
    /\ threads.at[t] = "sleep"
    /\ Moved(t, "try_recv", "sleep")
    /\ UNCHANGED <<sync_vars, token_vars, poll, pkce, server, watcher, table>>

\* the menu handler spawns a thread for 'Sync Now' (main.rs 321-325)
sync_now(t) ==
    /\ t \in SyncNowThreads
    /\ threads.at[t] \in {"none", "done"}
    /\ Moved(t, "lock_process", "spawn")
    /\ UNCHANGED <<sync_vars, token_vars, poll, pkce, server, watcher, table>>

\* sync_engine.lock().unwrap() (main.rs 205, 213, 327)
engine_lock(t) ==
    /\ threads.at[t] \in {"lock_handle", "lock_process"}
    /\ lock_granted(threads.mutex)
    /\ threads' =
         [threads EXCEPT
            !.mutex = <<t>>,
            !.at[t] = IF @ = "lock_handle" THEN "handle_file_change"
                      ELSE "process_all",
            !.last = ThreadStep(t, "lock")]
    /\ UNCHANGED <<sync_vars, token_vars, poll, pkce, server, watcher, table>>

\* engine.handle_file_change(event), then the guard is dropped at the end of
\* the block (main.rs 204-209)
engine_handle_file_change(t, queued) ==
    /\ threads.at[t] = "handle_file_change"
    /\ queued => threads.queued + 1 \in QueuedCounts
    /\ threads' =
         [threads EXCEPT
            !.queued = IF queued THEN @ + 1 ELSE @,
            !.mutex = <<>>,
            !.at[t] = "lock_process",
            !.last = [ThreadStep(t, "handle_file_change") EXCEPT
                         !.held = (threads.mutex = <<t>>)]]
    /\ UNCHANGED <<sync_vars, token_vars, poll, pkce, server, watcher, table>>

\* a process_all whose loop never runs
seen_empty(queued) == TRUE

\* self.queue.is_empty() (sync.rs 242)
VecDeque_is_empty(queued) == queued = 0

\* one evaluation of the while condition of process_all (sync.rs 242): with
\* an item queued process_next pops it and goes to the upload, with none
\* process_all returns and the guard is dropped (main.rs 216, 336)
engine_process_all(t) ==
    /\ threads.at[t] = "process_all"
    /\ LET empty == VecDeque_is_empty(threads.queued)
       IN  threads' =
             [threads EXCEPT
                !.queued = IF empty THEN @ ELSE @ - 1,
                !.mutex = IF empty THEN <<>> ELSE @,
                !.at[t] = IF ~empty THEN "process_next"
                          ELSE IF t \in EventThreads THEN "sleep" ELSE "done",
                !.last = [ThreadStep(t, IF empty THEN "process_all_returned"
                                        ELSE "pop_front")
                             EXCEPT !.held = (threads.mutex = <<t>>)]]
    /\ UNCHANGED <<sync_vars, token_vars, poll, pkce, server, watcher, table>>

\* the upload of process_next returns, with a workflow id or an error, and
\* process_all goes round its loop (sync.rs 157-175, 243-250)
engine_process_next(t) ==
    /\ threads.at[t] = "process_next"
    /\ Moved(t, "process_all", "process_next_returned")
    /\ UNCHANGED <<sync_vars, token_vars, poll, pkce, server, watcher, table>>

ThreadInit ==
    /\ SyncIdle /\ TokenIdle /\ PollIdle /\ PkceIdle
    /\ ServerIdle /\ WatcherIdle /\ ThreadsStart /\ TableIdle

ThreadNext ==
    \/ \E t \in EngineThreads, event \in BOOLEAN : event_try_recv(t, event)
    \/ \E t \in EngineThreads : event_sleep(t)
    \/ \E t \in EngineThreads : sync_now(t)
    \/ \E t \in EngineThreads : engine_lock(t)
    \/ \E t \in EngineThreads, queued \in BOOLEAN : engine_handle_file_change(t, queued)
    \/ \E t \in EngineThreads : engine_process_all(t)
    \/ \E t \in EngineThreads : engine_process_next(t)

ThreadSpec == ThreadInit /\ [][ThreadNext]_vars

\* C27: at most one thread at a time is inside handle_file_change,
\* process_all or process_next, that thread holds the engine's mutex, and
\* every step inside one of them, so every change of the queue, is made by
\* the thread holding the mutex.
C27_MutualExclusion ==
    /\ Cardinality({t \in EngineThreads : threads.at[t] \in InEngine}) <= 1
    /\ \A t \in EngineThreads : threads.at[t] \in InEngine => threads.mutex = <<t>>
    /\ threads.last.op \in {"handle_file_change", "pop_front", "process_next_returned",
                            "process_all_returned"}
          => threads.last.held

\* a 'Sync Now' thread is in the middle of process_next while the event
\* thread and the other 'Sync Now' thread both wait for the lock
C27_Witness ==
    /\ \E t \in SyncNowThreads : threads.at[t] = "process_next"
    /\ \E t \in EventThreads : threads.at[t] = "lock_process"
    /\ \E t \in SyncNowThreads : threads.at[t] = "lock_process"

\* C37: the engine's queue never holds more than one item, and it is empty
\* whenever the event thread polls the watcher for the next event (and
\* while it sleeps before that), whatever 'Sync Now' threads do in between.
C37_AtMostOneQueued ==
    /\ threads.queued <= 1
    /\ \A t \in EventThreads :
          threads.at[t] \in {"try_recv", "sleep"} => threads.queued = 0

\* the event thread has queued an item and released the engine, and a
\* 'Sync Now' thread got the engine first and is in process_all with that
\* item queued, a third thread waiting
C37_Witness ==
    /\ threads.queued = 1
    /\ \E t \in EventThreads : threads.at[t] = "lock_process"
    /\ \E t \in SyncNowThreads : threads.at[t] = "process_all"
    /\ \E t \in SyncNowThreads : threads.at[t] = "lock_process"

\* ====================================================================
\* process_all (sync.rs 240-253)
\* ====================================================================

\* C36: process_all, once entered, returns; it returns only from its while
\* condition finding the queue empty, which is Ok(count), never in the step
\* in which an item failed; by then process_next has been called exactly
\* once for each item queued at entry, and count is the number of items
\* uploaded, whatever the outcome of each item was.
C36_ProcessAllReturnsOk ==
    /\ [][(caller = "process_all" /\ caller' # "process_all")
             => /\ last'.op = "process_all"
                /\ last'.result = "returned"
                /\ queue' = <<>>
                /\ last'.pa.attempted = last'.pa.entry
                /\ last'.pa.count = last'.pa.succeeded
                /\ last'.pa.count <= last'.pa.entry]_vars
    /\ (caller = "process_all")
          ~> (last.op = "process_all" /\ last.result = "returned")

\* process_all returned 0 after two items, both of which failed
C36_Witness ==
    /\ last.op = "process_all"
    /\ last.result = "returned"
    /\ last.pa.entry = 2
    /\ last.pa.attempted = 2
    /\ last.pa.count = 0
    /\ queue = <<>>

\* ====================================================================
\* Queue and store in one lifetime of the process
\* ====================================================================

C39_PendingSurvivesCrash ==
    /\ [][last'.op = "restart"
             => \A p \in DOMAIN db : db[p].status = "pending" => db'[p] = db[p]]_vars
    /\ \A p \in Paths :
          (/\ last.op = "restart"
           /\ p \in DOMAIN db
           /\ db[p].status = "pending"
           /\ HashMatches(db, files, p))
             ~> (\/ QueuedFor(queue, p) >= 1
                 \/ ~(p \in DOMAIN db /\ HashMatches(db, files, p)))

\* what does hold: the Pending row, with its hash, is still there after the
\* restart, and the queue of the restarted process is empty
C39_RowKept ==
    [][last'.op = "restart"
          => /\ \A p \in DOMAIN db : db[p].status = "pending" => db'[p] = db[p]
             /\ queue' = <<>>]_vars

\* ====================================================================
\* From the watcher's channel to the engine (watcher.rs 46, 74, 138-140;
\* main.rs 186-222)
\* ====================================================================

\* the events the watcher's handler sends, numbered in the order sent
EventIds == 1..3

\* the watcher and the threads of ThreadSpec, with the number of events
\* sent so far, the event the event thread took from the channel, and the
\* events it has passed to handle_file_change, in that order
DeliveryStart ==
    /\ watcher = [watched_dirs |-> [w \in {} |-> ""], channel |-> <<>>,
                  last |-> WatchStep("new"), sent |-> 0]
    /\ threads = [mutex |-> <<>>,
                  at |-> [t \in EngineThreads |->
                             IF t \in EventThreads THEN "try_recv" ELSE "none"],
                  queued |-> 0,
                  last |-> ThreadStep(0, "create_shared_engine"),
                  event |-> <<>>,
                  handled |-> <<>>]

\* a channel of capacity one whose sender gives up when it is full
sync_channel_try_send(channel, event) ==
    IF Len(channel) >= 1 THEN channel ELSE Append(channel, event)

\* Sender::send on the channel of std::sync::mpsc::channel() (watcher.rs 46,
\* 74): the channel has no capacity limit and the receiver lives as long as
\* the FileWatcher, so the event is appended
Sender_send(channel, event) == Append(channel, event)

\* Receiver::try_recv (watcher.rs 139): the oldest event, if there is one,
\* and the channel without it
Receiver_try_recv(channel) ==
    IF channel = <<>> THEN [event |-> <<>>, channel |-> channel]
    ELSE [event |-> <<Head(channel)>>, channel |-> Tail(channel)]

\* the handler sends the next event (watcher.rs 69-76)
handler_send ==
    /\ watcher.sent + 1 \in EventIds
    /\ watcher' = [watcher EXCEPT
                      !.channel = Sender_send(@, watcher.sent + 1),
                      !.sent = @ + 1,
                      !.last = WatchStep("events")]
    /\ UNCHANGED <<sync_vars, token_vars, poll, pkce, server, threads, table>>

\* the event thread polls the watcher and looks at what it got (main.rs
\* 191-196)
thread_try_recv(t) ==
    /\ t \in EventThreads
    /\ threads.at[t] = "try_recv"
    /\ LET received == Receiver_try_recv(watcher.channel)
       IN  /\ watcher' = [watcher EXCEPT !.channel = received.channel,
                                         !.last = WatchStep("try_recv")]
           /\ threads' = [threads EXCEPT
                             !.event = received.event,
                             !.at[t] = IF received.event = <<>> THEN "sleep"
                                       ELSE "lock_handle",
                             !.last = ThreadStep(t, "try_recv")]
    /\ UNCHANGED <<sync_vars, token_vars, poll, pkce, server, table>>

\* engine.handle_file_change(event) with the event taken (main.rs 204-209)
thread_handle_file_change(t, queued) ==
    /\ threads.at[t] = "handle_file_change"
    /\ queued => threads.queued + 1 \in QueuedCounts
    /\ threads' =
         [threads EXCEPT
            !.queued = IF queued THEN @ + 1 ELSE @,
            !.mutex = <<>>,
            !.at[t] = "lock_process",
            !.handled = @ \o threads.event,
            !.event = <<>>,
            !.last = [ThreadStep(t, "handle_file_change") EXCEPT
                         !.held = (threads.mutex = <<t>>)]]
    /\ UNCHANGED <<sync_vars, token_vars, poll, pkce, server, watcher, table>>

DeliveryInit ==
    /\ SyncIdle /\ TokenIdle /\ PollIdle /\ PkceIdle
    /\ ServerIdle /\ DeliveryStart /\ TableIdle

DeliveryNext ==
    \/ handler_send
    \/ \E t \in EngineThreads : thread_try_recv(t)
    \/ \E t \in EngineThreads : event_sleep(t)
    \/ \E t \in EngineThreads : sync_now(t)
    \/ \E t \in EngineThreads : engine_lock(t)
    \/ \E t \in EngineThreads, queued \in BOOLEAN : thread_handle_file_change(t, queued)
    \/ \E t \in EngineThreads : engine_process_all(t)
    \/ \E t \in EngineThreads : engine_process_next(t)

DeliverySpec == DeliveryInit /\ [][DeliveryNext]_vars

\* a step of a thread that is not waiting for the engine's mutex
runs(t) ==
    \/ thread_try_recv(t)
    \/ event_sleep(t)
    \/ \E queued \in BOOLEAN : thread_handle_file_change(t, queued)
    \/ engine_process_all(t)
    \/ engine_process_next(t)

\* every thread keeps running, so every process_all returns, and the event
\* thread, waiting for the engine's mutex, gets it at one of the moments it
\* is free
DeliveryFairSpec ==
    /\ DeliverySpec
    /\ \A t \in EngineThreads : WF_vars(runs(t))
    /\ \A t \in EventThreads : SF_vars(engine_lock(t))

\* the events sent so far, in the order sent
RECURSIVE sent_so_far(_)
sent_so_far(n) == IF n = 0 THEN <<>> ELSE Append(sent_so_far(n - 1), n)

\* C35: the poll and the send can always be taken, whatever the channel
\* holds, the poll leaving the thread with or without an event; the events
\* handed to handle_file_change, the one the event thread holds and the ones
\* in the channel are together the events sent, each once and in the order
\* sent; and every event sent is in the end handed to handle_file_change.
C35_Delivery ==
    /\ [](/\ \A t \in EventThreads :
               threads.at[t] = "try_recv" => ENABLED thread_try_recv(t)
          /\ watcher.sent + 1 \in EventIds => ENABLED handler_send
          /\ threads.handled \o threads.event \o watcher.channel
                 = sent_so_far(watcher.sent))
    /\ [][watcher'.sent # watcher.sent
             => watcher'.channel = Append(watcher.channel, watcher'.sent)]_vars
    /\ \A id \in EventIds :
          (watcher.sent >= id)
             ~> (\E i \in 1..Len(threads.handled) : threads.handled[i] = id)

\* three events were sent before the first was taken, and all three have
\* been handed to handle_file_change, a 'Sync Now' thread waiting meanwhile
C35_Witness ==
    /\ threads.handled = <<1, 2, 3>>
    /\ watcher.channel = <<>>
    /\ \E t \in SyncNowThreads : threads.at[t] = "lock_process"

\* ====================================================================
\* Upload responses (sync.rs upload_conversation, process_next)
\* ====================================================================

C30_FailureLeavesNoTrace ==
    [][/\ (last'.op = "handle_file_change"
             /\ last'.result \in {"io_error", "db_error"})
          => queue' = queue /\ db' = db
       /\ Len(queue') > Len(queue)
          => /\ last'.op = "handle_file_change"
             /\ last'.result = "queued"]_vars

\* the write of the Pending row failed for a changed file while another
\* item was waiting: the row still says complete
C30_Witness ==
    /\ last.op = "handle_file_change"
    /\ last.result = "db_error"
    /\ status_of(db, last.path) = "complete"
    /\ ~HashMatches(db, files, last.path)
    /\ Len(queue) = 1

\* ====================================================================
\* The sync_state table (db.rs)
\* ====================================================================

\* the values a SyncState is built from
DbPaths == {"/test/file.jsonl", "/test/other.jsonl"}
DbHashes == {"abc123", "def456"}
DbTimes == {<<>>, <<1234567890>>}
DbWorkflows == {<<>>, <<"workflow-123">>}
SyncStatuses == {"Pending", "Syncing", "Complete", "Error"}

\* the workflow ids mark_complete is given and the times it reads
MarkWorkflows == {"workflow-123", "workflow-456"}
MarkTimes == {1234567890}

SyncStates ==
    [file_path : DbPaths, content_hash : DbHashes, last_synced_at : DbTimes,
     last_modified_at : MarkTimes, workflow_id : DbWorkflows,
     status : SyncStatuses]

\* SyncStatus::as_str and SyncStatus::from_str (db.rs 33-52)
as_str(status) ==
    CASE status = "Pending" -> "pending"
      [] status = "Syncing" -> "syncing"
      [] status = "Complete" -> "complete"
      [] status = "Error" -> "error"

from_str(text) ==
    CASE text = "pending" -> "Pending"
      [] text = "syncing" -> "Syncing"
      [] text = "complete" -> "Complete"
      [] text = "error" -> "Error"
      [] OTHER -> "Pending"

\* the row the INSERT of upsert_sync_state binds (db.rs 137-144)
row_of(state) == [state EXCEPT !.status = as_str(state.status)]

\* the SyncState get_sync_state builds from a row (db.rs 114-121)
state_of(row) == [row EXCEPT !.status = from_str(row.status)]

\* WHERE file_path = ?
rows_where(rows, file_path) == {r \in rows : r.file_path = file_path}

\* an INSERT into a table without the key on file_path
insert_without_key(rows, row) == rows \cup {row}

\* INSERT .. ON CONFLICT(file_path) DO UPDATE SET every other column
\* (db.rs 130-136), file_path being the PRIMARY KEY (db.rs 87)
insert_on_conflict_update(rows, row) ==
    (rows \ rows_where(rows, row.file_path)) \cup {row}

\* Database::upsert_sync_state
Database_upsert_sync_state(rows, state) == insert_on_conflict_update(rows, row_of(state))

\* Database::get_sync_state: rows.next() of the SELECT, the values it can
\* return
Database_get_sync_state(rows, file_path) ==
    IF rows_where(rows, file_path) = {} THEN {<<>>}
    ELSE {<<state_of(r)>> : r \in rows_where(rows, file_path)}

\* an update_status written as a replacement of the row, the columns it is
\* not given falling back to their defaults
Database_update_status_replacing(rows, file_path, status) ==
    {IF r.file_path = file_path
     THEN [r EXCEPT !.status = as_str(status), !.workflow_id = <<>>,
                    !.last_synced_at = <<>>]
     ELSE r
        : r \in rows}

\* Database::update_status, mark_syncing, mark_complete: UPDATE .. WHERE
Database_update_status(rows, file_path, status) ==
    {IF r.file_path = file_path THEN [r EXCEPT !.status = as_str(status)] ELSE r
        : r \in rows}

Database_mark_syncing(rows, file_path) ==
    {IF r.file_path = file_path THEN [r EXCEPT !.status = "syncing"] ELSE r
        : r \in rows}

Database_mark_complete(rows, file_path, workflow_id, at) ==
    {IF r.file_path = file_path
     THEN [r EXCEPT !.status = "complete", !.workflow_id = <<workflow_id>>,
                    !.last_synced_at = <<at>>]
     ELSE r
        : r \in rows}

\* a step on the table: the method, its arguments, what get_sync_state returned
DbStep(op) ==
    [op |-> op, file_path |-> "", state |-> <<>>, workflow_id |-> "",
     got |-> <<>>, status |-> ""]

\* Database::open_at on a new file (db.rs 72-101)
TableOpened == table = [rows |-> {}, last |-> DbStep("open_at")]

db_upsert_sync_state(state) ==
    /\ table' = [rows |-> Database_upsert_sync_state(table.rows, state),
                 last |-> [DbStep("upsert_sync_state") EXCEPT
                              !.file_path = state.file_path, !.state = <<state>>]]
    /\ UNCHANGED <<sync_vars, token_vars, poll, pkce, server, watcher, threads>>

db_get_sync_state(file_path) ==
    /\ \E got \in Database_get_sync_state(table.rows, file_path) :
          table' = [table EXCEPT
                      !.last = [DbStep("get_sync_state") EXCEPT
                                   !.file_path = file_path, !.got = got]]
    /\ UNCHANGED <<sync_vars, token_vars, poll, pkce, server, watcher, threads>>

db_update_status(file_path, status) ==
    /\ table' = [rows |-> Database_update_status(table.rows, file_path, status),
                 last |-> [DbStep("update_status") EXCEPT
                              !.file_path = file_path, !.status = status]]
    /\ UNCHANGED <<sync_vars, token_vars, poll, pkce, server, watcher, threads>>

db_mark_syncing(file_path) ==
    /\ table' = [rows |-> Database_mark_syncing(table.rows, file_path),
                 last |-> [DbStep("mark_syncing") EXCEPT
                              !.file_path = file_path, !.status = "Syncing"]]
    /\ UNCHANGED <<sync_vars, token_vars, poll, pkce, server, watcher, threads>>

db_mark_complete(file_path, workflow_id, at) ==
    /\ table' = [rows |-> Database_mark_complete(table.rows, file_path, workflow_id, at),
                 last |-> [DbStep("mark_complete") EXCEPT
                              !.file_path = file_path, !.workflow_id = workflow_id]]
    /\ UNCHANGED <<sync_vars, token_vars, poll, pkce, server, watcher, threads>>

DbInit ==
    /\ SyncIdle /\ TokenIdle /\ PollIdle /\ PkceIdle
    /\ ServerIdle /\ WatcherIdle /\ ThreadsIdle /\ TableOpened

DbNext ==
    \/ \E state \in SyncStates : db_upsert_sync_state(state)
    \/ \E file_path \in DbPaths : db_get_sync_state(file_path)
    \/ \E file_path \in DbPaths, status \in SyncStatuses :
          db_update_status(file_path, status)
    \/ \E file_path \in DbPaths : db_mark_syncing(file_path)
    \/ \E file_path \in DbPaths, workflow_id \in MarkWorkflows, at \in MarkTimes :
          db_mark_complete(file_path, workflow_id, at)

DbSpec == DbInit /\ [][DbNext]_vars

\* no path has two rows; an upsert leaves for its path the one row of the
\* state given, adding a row when the path had none and replacing the row
\* when it had one, the other rows staying; get_sync_state after it returns
\* the fields of that state
UpsertAndGet ==
    /\ \A file_path \in DbPaths :
          Cardinality(rows_where(table'.rows, file_path)) <= 1
    /\ table'.last.op = "upsert_sync_state" =>
          LET state == table'.last.state[1]
              had == rows_where(table.rows, state.file_path)
          IN  /\ Database_get_sync_state(table'.rows, state.file_path) = {<<state>>}
              /\ table'.rows \ rows_where(table'.rows, state.file_path)
                    = table.rows \ had
              /\ Cardinality(table'.rows)
                    = Cardinality(table.rows) + (IF had = {} THEN 1 ELSE 0)
    /\ table'.last.op = "get_sync_state" => table'.rows = table.rows

\* after mark_complete(path, id), get_sync_state(path) returns a state with
\* status Complete and workflow id id
CompleteAfterMark ==
    \A got \in Database_get_sync_state(table'.rows, table'.last.file_path) :
       /\ got # <<>>
       /\ got[1].status = "Complete"
       /\ got[1].workflow_id = <<table'.last.workflow_id>>

\* C29 as stated: one record per path, upsert inserting or replacing, get
\* after upsert returning the state's fields, and every mark_complete(path, id)
\* making get(path) return Complete with workflow id id.
C29_OneRecordPerPath ==
    [][/\ UpsertAndGet
       /\ table'.last.op = "mark_complete" => CompleteAfterMark]_vars

\* C29: no path ever has two records; upsert on a new path inserts a record
\* and on an existing path replaces it; get(path) after upsert(state) returns
\* the fields of state; mark_complete(path, id) on a path that has a record
\* makes get(path) return status Complete with workflow id id and changes no
\* other record, and on a path without a record it writes nothing.
C29_OneRecordPerKnownPath ==
    [][/\ UpsertAndGet
       /\ table'.last.op = "mark_complete" =>
             IF rows_where(table.rows, table'.last.file_path) # {}
             THEN /\ CompleteAfterMark
                  /\ table'.rows \ rows_where(table'.rows, table'.last.file_path)
                        = table.rows \ rows_where(table.rows, table'.last.file_path)
             ELSE /\ table'.rows = table.rows
                  /\ Database_get_sync_state(table'.rows, table'.last.file_path)
                        = {<<>>}]_vars

\* two paths have a record each; the one that was upserted twice and then
\* marked complete reads back Complete with the workflow id given
C29_Witness ==
    /\ table.last.op = "mark_complete"
    /\ table.last.workflow_id = "workflow-456"
    /\ Cardinality(table.rows) = 2
    /\ \E r \in table.rows :
          /\ r.file_path = table.last.file_path
          /\ r.status = "complete"
          /\ r.workflow_id = <<"workflow-456">>
          /\ r.content_hash = "def456"

\* ====================================================================
\* The fields of a sync_state row (sync.rs, db.rs)
\* ====================================================================

\* C31: a row with status pending has neither a workflow id nor a
\* last_synced_at and a row with status complete has both; and the two
\* fields of a row are given a value only by the step in which a successful
\* upload marks the row complete.
C31_SetOnlyByComplete ==
    [][/\ \A p \in DOMAIN db' :
            /\ db'[p].status = "pending"
                  => db'[p].workflow_id = NoWorkflow /\ db'[p].last_synced_at = NoTime
            /\ db'[p].status = "complete"
                  => db'[p].workflow_id # NoWorkflow /\ db'[p].last_synced_at # NoTime
       /\ \A p \in DOMAIN db' :
            LET was == IF p \in DOMAIN db
                       THEN db[p]
                       ELSE [workflow_id |-> NoWorkflow, last_synced_at |-> NoTime]
            IN  (\/ db'[p].workflow_id \notin {was.workflow_id, NoWorkflow}
                 \/ db'[p].last_synced_at \notin {was.last_synced_at, NoTime})
                => /\ last'.op = "upload_conversation"
                   /\ last'.result = "ok"
                   /\ last'.path = p
                   /\ db'[p].status = "complete"]_vars

\* an upload has just marked one file's row complete, with its workflow id
\* and the time of the upload, while another file's row is pending with
\* neither
C31_Witness ==
    /\ last.op = "upload_conversation"
    /\ last.result = "ok"
    /\ db[last.path].status = "complete"
    /\ db[last.path].workflow_id = last.wf
    /\ db[last.path].last_synced_at = now
    /\ now > 0
    /\ \E p \in DOMAIN db \ {last.path} :
          /\ db[p].status = "pending"
          /\ db[p].workflow_id = NoWorkflow
          /\ db[p].last_synced_at = NoTime

\* a row without its status
but_status(row) == [row EXCEPT !.status = ""]

====
